---- MODULE Spec2Model ----
(***************************************************************************)
(* Model of the multi-stage content analysis pipeline of Relevant_Backend: *)
(* AnalysisPipeline (orchestrator), the five filters it sequences, and the *)
(* OpenRouterService client the two AI stages call.                        *)
(*                                                                         *)
(* Scores are JavaScript numbers in [0,1]; the model carries them in       *)
(* thousandths (0.3 is 300).  Text is modelled by the set of table terms   *)
(* (interest names, keywords, quality indicators, ...) that occur in it as *)
(* lowercase substrings, so text.includes(term) is set membership.         *)
(* An object field that is not set is absent from the record's DOMAIN.     *)
(***************************************************************************)
EXTENDS Integers, Sequences, FiniteSets, TLC

\* ---------------------------------------------------------------- bounds
MaxItems == 4
MaxFaults == 2
MaxSelect == 11
MaxUsers == 2
MaxRequests == 3
MaxVideos == 2
MaxJobs == 3
MaxRuns == 2
MaxChains == 3
MaxCleanups == 1
MaxTargets == 2

\* ------------------------------------------------ AnalysisConfig (part_004)
minTitleRelevance == 300
minDescriptionLength == 50
maxDescriptionLength == 5000
keywordMatchThreshold == 2
fullAnalysisThreshold == 750
minDurationSeconds == 60
maxDurationSeconds == 28800
batchSize == 3
maxFullAnalysis == 10
maxTokensQuick == 200
maxTokensFull == 1000
minTitleLength == 10
engagementViewCount == 10000
viewCountThresholdHigh == 100000
viewCountThresholdMed == 10000
durationMinOptimal == 300
durationMaxOptimal == 3600
ScoreOne == 1000
DefaultScore == 500
DefaultPriority == 5
maxHighlights == 5
maxKeyPoints == 10
maxTags == 15
maxCategories == 3

\* KeywordsConfig tables (the terms of each table that occur in the modelled texts)
irrelevantKeywords == {"vlog", "prank"}
qualityIndicators == {"tutorial", "guide", "course"}
professionalDomains == {"programming", "software", "ai"}

\* ------------------------------------------------------------- JS helpers
\* o.f || d for a numeric field: an unset field and the number 0 are both falsy
FieldOr(o, f, d) == IF f \in DOMAIN o /\ o[f] # 0 THEN o[f] ELSE d

\* v || d for a number v
NumOr(v, d) == IF v # 0 THEN v ELSE d

Min(a, b) == IF a <= b THEN a ELSE b

\* {...o, ...upd}
Spread(o, upd) == upd @@ o

RECURSIVE SumSeq(_)
SumSeq(s) == IF s = <<>> THEN 0 ELSE Head(s) + SumSeq(Tail(s))

\* Array.prototype.filter
FilterSeq(s, Keep(_)) ==
    LET RECURSIVE F(_)
        F(k) == IF k = 0 THEN <<>>
                ELSE IF Keep(s[k]) THEN Append(F(k - 1), s[k]) ELSE F(k - 1)
    IN F(Len(s))

\* Array.prototype.map
MapSeq(s, Fn(_)) == [k \in 1..Len(s) |-> Fn(s[k])]

\* Array.prototype.sort((a, b) => Key(b) - Key(a)): stable, descending by Key
SortDesc(s, Key(_)) ==
    LET RECURSIVE Ins(_, _)
        Ins(x, t) == IF t = <<>> THEN <<x>>
                     ELSE IF Key(Head(t)) >= Key(x) THEN <<Head(t)>> \o Ins(x, Tail(t))
                          ELSE <<x>> \o t
        RECURSIVE Srt(_)
        Srt(k) == IF k = 0 THEN <<>> ELSE Ins(s[k], Srt(k - 1))
    IN Srt(Len(s))

\* String.prototype.toLowerCase on the names the modelled interest models use
LowerTable == [Programming |-> "programming", Frontend |-> "frontend",
               AI |-> "ai", Web |-> "web", React |-> "react",
               BasicContentFilter |-> "basiccontentfilter",
               KeywordRelevanceFilter |-> "keywordrelevancefilter",
               QualityScorer |-> "qualityscorer",
               QuickAIAnalyzer |-> "quickaianalyzer",
               FullAIAnalyzer |-> "fullaianalyzer"]

ToLower(str) == IF str \in DOMAIN LowerTable THEN LowerTable[str] ELSE str

\* String.prototype.replace(/([A-Z])/g, '_$1'): an underscore before every capital
SnakeTable == [BasicContentFilter |-> "_Basic_Content_Filter",
               KeywordRelevanceFilter |-> "_Keyword_Relevance_Filter",
               QualityScorer |-> "_Quality_Scorer",
               QuickAIAnalyzer |-> "_Quick_A_I_Analyzer",
               FullAIAnalyzer |-> "_Full_A_I_Analyzer"]

UnderscoreCapitals(str) == IF str \in DOMAIN SnakeTable THEN SnakeTable[str] ELSE str

\* ------------------------------------------------------------------ inputs
\* Raw content items {id, title, description, viewCount?, duration?}.
PT(h, m, sec) == [kind |-> "iso", h |-> h, m |-> m, s |-> sec]

Catalog ==
    << [id |-> 1, titleLen |-> 5, titleTerms |-> {}, descLen |-> 60,
        descTerms |-> {"tutorial"}],
       [id |-> 4, titleLen |-> 25, titleTerms |-> {"cooking"},
        descLen |-> 80, descTerms |-> {"course"}],
       [id |-> 3, titleLen |-> 30, titleTerms |-> {"react", "guide"},
        descLen |-> 120, descTerms |-> {"hooks", "css"}],
       [id |-> 5, titleLen |-> 28, titleTerms |-> {"programming", "course"},
        descLen |-> 150, descTerms |-> {"react", "ai", "web"},
        duration |-> PT(2, 0, 0)],
       [id |-> 2, titleLen |-> 43, titleTerms |-> {"react", "hooks", "tutorial"},
        descLen |-> 200, descTerms |-> {"tutorial", "programming", "ai", "web"},
        viewCount |-> 50000, duration |-> PT(0, 10, 0)],
       [id |-> 6, titleLen |-> 35, titleTerms |-> {"programming", "software", "tutorial"},
        descLen |-> 90, descTerms |-> {"hooks", "web"},
        viewCount |-> 200000, duration |-> PT(0, 30, 0)] >>

Ids == {Catalog[k].id : k \in 1..Len(Catalog)}

\* the batches a caller may pass: the runs of consecutive Catalog items of at most
\* MaxItems items (the empty batch among them)
Batches ==
    { SubSeq(Catalog, w[1], w[2]) :
        w \in { v \in (1..(Len(Catalog) + 1)) \X (0..Len(Catalog)) :
                  v[2] >= v[1] - 1 /\ v[2] - v[1] + 1 <= MaxItems } }

\* Interest models: [legacy, names, data].  A hierarchical model is an object whose
\* keys are `names` (in insertion order); a legacy model is an array of names.
IMProgramming ==
    [legacy |-> FALSE, names |-> <<"Programming">>,
     data |-> [Programming |->
                 [priority |-> 8, keywords |-> <<"React">>,
                  subcategories |->
                     [names |-> <<"Frontend">>,
                      data |-> [Frontend |-> [priority |-> 3,
                                              keywords |-> <<"hooks", "css">>]]]]]]

IMLegacy == [legacy |-> TRUE, names |-> <<"AI", "Web">>, data |-> <<>>]

IMEmpty == [legacy |-> FALSE, names |-> <<>>, data |-> <<>>]

\* {Programming: null}: a malformed hierarchical model
IMMalformed == [legacy |-> FALSE, names |-> <<"Programming">>,
                data |-> [Programming |-> [isNull |-> TRUE]]]

InterestModels == {IMProgramming, IMLegacy, IMEmpty, IMMalformed}

\* --------------------------------------------------------------- BaseFilter
\* text.includes(term.toLowerCase()) for text = (title + ' ' + description).toLowerCase()
TextIncludes(content, term) == ToLower(term) \in (content.titleTerms \cup content.descTerms)

TitleIncludes(content, term) == ToLower(term) \in content.titleTerms

\* content.title && content.description: an item without a description, or with the
\* empty one, is not valid
validateContent(content) ==
    /\ content.titleLen > 0
    /\ "descLen" \in DOMAIN content
    /\ content.descLen > 0

\* a duration is an ISO-8601 string (kind "iso"), a string the pattern does not match
\* (kind "text") or a number of seconds (kind "number")
parseDuration(duration) ==
    IF duration.kind = "iso"
    THEN duration.h * 3600 + duration.m * 60 + duration.s
    ELSE 0

createResult(name, stats, content, metadata) ==
    [content |-> content,
     metadata |-> Spread([filterName |-> name, stats |-> Spread(stats, [name |-> name])],
                         metadata)]

\* ------------------------------------------------------- BasicContentFilter
hasIrrelevantKeywords(content) ==
    \E k \in irrelevantKeywords : TextIncludes(content, k)

isValidDuration(duration) ==
    /\ parseDuration(duration) >= minDurationSeconds
    /\ parseDuration(duration) <= maxDurationSeconds

hasQualityIndicators(content) ==
    \/ \E q \in qualityIndicators : TextIncludes(content, q)
    \/ \E d \in professionalDomains : TextIncludes(content, d)
    \/ FieldOr(content, "viewCount", 0) > engagementViewCount

passesBasicFilter(content) ==
    LET hasQualityTitle == \/ \E q \in qualityIndicators : TitleIncludes(content, q)
                           \/ \E d \in professionalDomains : TitleIncludes(content, d)
        minDescLength == IF hasQualityTitle THEN 0 ELSE minDescriptionLength
    IN /\ validateContent(content)
       /\ content.titleLen >= minTitleLength
       /\ content.descLen >= minDescLength
       /\ content.descLen <= maxDescriptionLength
       /\ ~hasIrrelevantKeywords(content)
       /\ ("duration" \in DOMAIN content => isValidDuration(content.duration))
       /\ hasQualityIndicators(content)

\* BasicContentFilter.process: [result, stats]
BasicProcess(contentBatch, stats) ==
    LET filtered == FilterSeq(contentBatch, passesBasicFilter)
        stats2 == [stats EXCEPT !.processed = Len(contentBatch),
                                !.filtered = Len(contentBatch) - Len(filtered)]
    IN [threw |-> FALSE,
        result |-> createResult("BasicContentFilter", stats2, filtered,
                                [originalCount |-> Len(contentBatch),
                                 filteredCount |-> Len(filtered)]),
        stats |-> stats2]

\* --------------------------------------------------- KeywordRelevanceFilter
\* Object.keys(userInterests || {}) or the array itself
InterestNames(userInterests) == userInterests.names

\* userInterests[interest], or { priority: 5, keywords: [] } for a legacy array
InterestData(userInterests, interest) ==
    IF userInterests.legacy THEN [priority |-> DefaultPriority, keywords |-> <<>>]
    ELSE userInterests.data[interest]

\* reading a property of null raises a TypeError
IsNull(interestData) == "isNull" \in DOMAIN interestData

Keywords(d) == IF "keywords" \in DOMAIN d THEN d.keywords ELSE <<>>

Priority(d) == FieldOr(d, "priority", DefaultPriority)

SubNames(d) == IF "subcategories" \in DOMAIN d THEN d.subcategories.names ELSE <<>>

\* number of entries of the array `terms` that the text includes
Hits(content, terms) == Len(FilterSeq(terms, LAMBDA k : TextIncludes(content, k)))

\* calculateKeywordRelevance's loop body for one interest: [totalScore, matchCount]
InterestScore(content, interest, d) ==
    LET main == IF TextIncludes(content, interest) THEN 1 ELSE 0
        kw == Hits(content, Keywords(d))
        sub(n) == LET sd == d.subcategories.data[SubNames(d)[n]]
                  IN [score |-> (IF TextIncludes(content, SubNames(d)[n])
                                 THEN Priority(sd) * 80 ELSE 0)
                                + Hits(content, Keywords(sd)) * Priority(sd) * 30,
                      count |-> (IF TextIncludes(content, SubNames(d)[n]) THEN 1 ELSE 0)
                                + Hits(content, Keywords(sd))]
        subs == [n \in 1..Len(SubNames(d)) |-> sub(n)]
    IN [totalScore |-> main * Priority(d) * 100 + kw * Priority(d) * 50
                       + SumSeq(MapSeq(subs, LAMBDA r : r.score)),
        matchCount |-> main + kw + SumSeq(MapSeq(subs, LAMBDA r : r.count))]

\* calculateKeywordRelevance without the matchCount gate of its return statement
calculateKeywordRelevance_NoGate(content, userInterests) ==
    LET names == InterestNames(userInterests)
        per == [n \in 1..Len(names) |->
                  InterestScore(content, names[n], InterestData(userInterests, names[n]))]
        totalScore == SumSeq(MapSeq(per, LAMBDA r : r.totalScore))
    IN Min(totalScore, ScoreOne)

calculateKeywordRelevance(content, userInterests) ==
    LET names == InterestNames(userInterests)
        per == [n \in 1..Len(names) |->
                  InterestScore(content, names[n], InterestData(userInterests, names[n]))]
        totalScore == SumSeq(MapSeq(per, LAMBDA r : r.totalScore))
        matchCount == SumSeq(MapSeq(per, LAMBDA r : r.matchCount))
    IN IF matchCount >= keywordMatchThreshold THEN Min(totalScore, ScoreOne) ELSE 0

\* InterestMatches, had the matches of subcategory keywords not been listed
InterestMatches_NoSubcategoryKeywords(content, interest, d) ==
    LET main == IF TextIncludes(content, interest)
                THEN << [type |-> "main_interest", term |-> interest,
                         priority |-> Priority(d)] >>
                ELSE <<>>
        kw == MapSeq(FilterSeq(Keywords(d), LAMBDA k : TextIncludes(content, k)),
                     LAMBDA k : [type |-> "keyword", term |-> k, category |-> interest,
                                 priority |-> Priority(d)])
        RECURSIVE Subs(_)
        Subs(n) ==
            IF n > Len(SubNames(d)) THEN <<>>
            ELSE LET subcat == SubNames(d)[n]
                     sd == d.subcategories.data[subcat]
                     own == IF TextIncludes(content, subcat)
                            THEN << [type |-> "subcategory", term |-> subcat,
                                     category |-> interest, priority |-> Priority(sd)] >>
                            ELSE <<>>
                 IN own \o Subs(n + 1)
    IN main \o kw \o Subs(1)

\* getKeywordMatches's loop body for one interest
InterestMatches(content, interest, d) ==
    LET main == IF TextIncludes(content, interest)
                THEN << [type |-> "main_interest", term |-> interest,
                         priority |-> Priority(d)] >>
                ELSE <<>>
        kw == MapSeq(FilterSeq(Keywords(d), LAMBDA k : TextIncludes(content, k)),
                     LAMBDA k : [type |-> "keyword", term |-> k, category |-> interest,
                                 priority |-> Priority(d)])
        RECURSIVE Subs(_)
        Subs(n) ==
            IF n > Len(SubNames(d)) THEN <<>>
            ELSE LET subcat == SubNames(d)[n]
                     sd == d.subcategories.data[subcat]
                     own == IF TextIncludes(content, subcat)
                            THEN << [type |-> "subcategory", term |-> subcat,
                                     category |-> interest, priority |-> Priority(sd)] >>
                            ELSE <<>>
                     skw == MapSeq(FilterSeq(Keywords(sd),
                                             LAMBDA k : TextIncludes(content, k)),
                                   LAMBDA k : [type |-> "subcategory_keyword", term |-> k,
                                               category |-> interest,
                                               subcategory |-> subcat,
                                               priority |-> Priority(sd)])
                 IN own \o skw \o Subs(n + 1)
    IN main \o kw \o Subs(1)

getKeywordMatches(content, userInterests) ==
    LET names == InterestNames(userInterests)
        RECURSIVE Go(_)
        Go(n) == IF n > Len(names) THEN <<>>
                 ELSE InterestMatches(content, names[n],
                                      InterestData(userInterests, names[n])) \o Go(n + 1)
    IN Go(1)

enrichWithKeywordRelevance(content, userInterests) ==
    Spread(content,
           [keywordRelevance |-> calculateKeywordRelevance(content, userInterests),
            keywordMatches |-> getKeywordMatches(content, userInterests)])

\* interestData.priority on a null entry throws as soon as one item is scored
KeywordThrows(contentBatch, userInterests) ==
    /\ contentBatch # <<>>
    /\ ~userInterests.legacy
    /\ \E n \in 1..Len(userInterests.names) :
           IsNull(userInterests.data[userInterests.names[n]])

\* KeywordProcess, had the threshold filter of line 117 been left out
KeywordProcess_KeepsAll(contentBatch, userInterests, stats) ==
    IF KeywordThrows(contentBatch, userInterests)
    THEN [threw |-> TRUE, error |-> "TypeError", stats |-> stats]
    ELSE LET enriched == MapSeq(contentBatch,
                                LAMBDA c : enrichWithKeywordRelevance(c, userInterests))
             stats2 == [stats EXCEPT !.processed = Len(contentBatch)]
         IN [threw |-> FALSE,
             result |-> createResult("KeywordRelevanceFilter", stats2, enriched,
                                     [originalCount |-> Len(contentBatch),
                                      filteredCount |-> Len(enriched)]),
             stats |-> stats2]

\* KeywordRelevanceFilter.process
KeywordProcess(contentBatch, userInterests, stats) ==
    IF KeywordThrows(contentBatch, userInterests)
    THEN [threw |-> TRUE, error |-> "TypeError", stats |-> stats]
    ELSE LET enriched == MapSeq(contentBatch,
                                LAMBDA c : enrichWithKeywordRelevance(c, userInterests))
             filtered == FilterSeq(enriched,
                                   LAMBDA c : c.keywordRelevance >= minTitleRelevance)
             stats2 == [stats EXCEPT !.processed = Len(contentBatch),
                                     !.filtered = Len(contentBatch) - Len(filtered)]
         IN [threw |-> FALSE,
             result |-> createResult("KeywordRelevanceFilter", stats2, filtered,
                                     [originalCount |-> Len(contentBatch),
                                      filteredCount |-> Len(filtered)]),
             stats |-> stats2]

\* ------------------------------------------------------------ QualityScorer
CountIn(content, table) == Cardinality({t \in table : TextIncludes(content, t)})

calculateQualityScore(content) ==
    LET quality == Min(CountIn(content, qualityIndicators) * 100, 400)
        domain == Min(CountIn(content, professionalDomains) * 100, 300)
        vc == FieldOr(content, "viewCount", 0)
        views == IF vc > viewCountThresholdHigh THEN 200
                 ELSE IF vc > viewCountThresholdMed THEN 100 ELSE 0
        dur == IF "duration" \in DOMAIN content THEN parseDuration(content.duration) ELSE 0
        sweet == IF /\ "duration" \in DOMAIN content
                    /\ dur >= durationMinOptimal /\ dur <= durationMaxOptimal
                 THEN 100 ELSE 0
    IN Min(quality + domain + views + sweet, ScoreOne)

\* alignment / totalPriority, in thousandths (rounded down)
calculateInterestAlignment(content, userInterests) ==
    LET names == InterestNames(userInterests)
        prio(n) == IF userInterests.legacy THEN DefaultPriority
                   ELSE IF IsNull(userInterests.data[names[n]]) THEN DefaultPriority
                   ELSE Priority(userInterests.data[names[n]])
        totalPriority == SumSeq([n \in 1..Len(names) |-> prio(n)])
        alignment == SumSeq([n \in 1..Len(names) |->
                               IF TextIncludes(content, names[n]) THEN prio(n) ELSE 0])
    IN IF names = <<>> THEN DefaultScore
       ELSE IF totalPriority > 0
            THEN Min((alignment * ScoreOne) \div totalPriority, ScoreOne)
            ELSE 0

\* qualityScore * 0.4 + keywordRelevance * 0.4 + interestAlignment * 0.2
enrichWithQualityScores(content, userInterests) ==
    LET qualityScore == calculateQualityScore(content)
        interestAlignment == calculateInterestAlignment(content, userInterests)
        combinedScore == (qualityScore * 4 + content.keywordRelevance * 4
                          + interestAlignment * 2) \div 10
    IN Spread(content, [qualityScore |-> qualityScore,
                        interestAlignment |-> interestAlignment,
                        combinedScore |-> combinedScore])

\* QualityScorer.process without the sort of line 25
QualityProcess_Unsorted(contentBatch, userInterests, stats) ==
    LET scored == MapSeq(contentBatch, LAMBDA c : enrichWithQualityScores(c, userInterests))
        stats2 == [stats EXCEPT !.processed = Len(contentBatch)]
    IN [threw |-> FALSE,
        result |-> createResult("QualityScorer", stats2, scored, <<>>),
        stats |-> stats2]

\* QualityScorer.process
QualityProcess(contentBatch, userInterests, stats) ==
    LET scored == MapSeq(contentBatch, LAMBDA c : enrichWithQualityScores(c, userInterests))
        sorted == SortDesc(scored, LAMBDA c : c.combinedScore)
        stats2 == [stats EXCEPT !.processed = Len(contentBatch)]
    IN [threw |-> FALSE,
        result |-> createResult("QualityScorer", stats2, sorted, <<>>),
        stats |-> stats2]

\* -------------------------------------------------------- OpenRouterService
Gemini == "google/gemini-2.0-flash-001"
Llama == "meta-llama/llama-3.1-8b-instruct:free"
Horizon == "openrouter/horizon-beta"

\* calculateCost's table, in millionths of a dollar per token
RateTable == [gpt35 |-> 2, gpt4 |-> 30, gemini |-> 0, llama |-> 0, horizon |-> 1]

ModelKey(model) == IF model = Gemini THEN "gemini"
                   ELSE IF model = Llama THEN "llama"
                   ELSE IF model = Horizon THEN "horizon"
                   ELSE model

\* calculateCost(tokens, model) = tokens * (costs[model] || costs[gemini]).
\* Token counts are carried in quarter tokens (prompt.length / 4 is then exact) and
\* money in quarter millionths of a dollar.
calculateCost(quarterTokens, model) ==
    quarterTokens * (IF ModelKey(model) \in DOMAIN RateTable
                     THEN NumOr(RateTable[ModelKey(model)], RateTable.gemini)
                     ELSE RateTable.gemini)

NewClientStats == [totalRequests |-> 0, successfulRequests |-> 0, failedRequests |-> 0,
                   totalTokens |-> 0, totalCost |-> 0]

\* makeRequest up to its await: count the request and post it
makeRequestStart(stats) == [stats EXCEPT !.totalRequests = @ + 1]

\* makeRequestResolve, had the catch block retried whatever the model of the attempt
makeRequestResolve_RetriesAgain(stats, cfg, requestModel, response) ==
    LET counted == IF response.kind \in {"ok", "nobody"}
                   THEN [stats EXCEPT !.successfulRequests = @ + 1]
                   ELSE stats
    IN IF response.kind = "ok"
       THEN [stats |-> counted, next |-> "return"]
       ELSE [stats |-> [counted EXCEPT !.failedRequests = @ + 1], next |-> "retry"]

\* makeRequestResolve, had the catch block re-thrown without trying the fallback
makeRequestResolve_NoFailover(stats, cfg, requestModel, response) ==
    LET counted == IF response.kind \in {"ok", "nobody"}
                   THEN [stats EXCEPT !.successfulRequests = @ + 1]
                   ELSE stats
    IN IF response.kind = "ok"
       THEN [stats |-> counted, next |-> "return"]
       ELSE [stats |-> [counted EXCEPT !.failedRequests = @ + 1], next |-> "throw"]

\* makeRequest after its await, for one attempt with `requestModel`.
\* response.kind: "error" | "timeout" (axios rejects), "nobody" (response.data is
\* null), "ok" (response.data present, with or without usage).
\* Returns the new stats and what the attempt does next:
\* "return" (response.data), "retry" (on the fallback model) or "throw".
makeRequestResolve(stats, cfg, requestModel, response) ==
    LET counted == IF response.kind \in {"ok", "nobody"}
                   THEN [stats EXCEPT !.successfulRequests = @ + 1]
                   ELSE stats
        tracked == IF response.kind = "ok" /\ "usage" \in DOMAIN response
                   THEN [counted EXCEPT
                           !.totalTokens = @ + response.usage,
                           !.totalCost = @ + calculateCost(4 * response.usage,
                                                           requestModel)]
                   ELSE counted
        failed == [counted EXCEPT !.failedRequests = @ + 1]
    IN IF response.kind = "ok"
       THEN [stats |-> tracked, next |-> "return"]
       ELSE IF requestModel = cfg.primary /\ cfg.fallback # cfg.primary
            THEN [stats |-> failed, next |-> "retry"]
            ELSE [stats |-> failed, next |-> "throw"]

\* ---------------------------------------------------------- QuickAIAnalyzer
\* PromptsConfig.quickAnalysis(...).length: the template plus, per item, its title,
\* the first 300 characters of its description and a fixed frame
QuickPromptLength(batch) ==
    700 + SumSeq(MapSeq(batch, LAMBDA c : c.titleLen + Min(c.descLen, 300) + 48))

\* analyzeBatch, had the validation of the scores array (lines 240-243) been left out
analyzeBatch_NoLengthCheck(batch, payload, cfg) ==
    IF payload.kind # "scores"
    THEN [threw |-> TRUE, error |-> payload.kind]
    ELSE [threw |-> FALSE,
          content |-> [k \in 1..Len(batch) |->
                         Spread(batch[k],
                                [quickAiScore |->
                                    IF k \in DOMAIN payload.scores
                                    THEN NumOr(payload.scores[k],
                                               FieldOr(batch[k], "combinedScore",
                                                       DefaultScore))
                                    ELSE FieldOr(batch[k], "combinedScore", DefaultScore),
                                 aiAnalyzed |-> TRUE,
                                 aiModel |-> cfg.primary])],
          cost |-> calculateCost(QuickPromptLength(batch) + 4 * maxTokensQuick,
                                 cfg.primary)]

\* analyzeBatch after makeRequest returned `payload` (the message content):
\* parseResponse and the length validation throw; otherwise the enriched batch.
analyzeBatch(batch, payload, cfg) ==
    IF payload.kind # "scores" \/ Len(payload.scores) # Len(batch)
    THEN [threw |-> TRUE, error |-> payload.kind]
    ELSE [threw |-> FALSE,
          content |-> [k \in 1..Len(batch) |->
                         Spread(batch[k],
                                [quickAiScore |->
                                    NumOr(payload.scores[k],
                                          FieldOr(batch[k], "combinedScore", DefaultScore)),
                                 aiAnalyzed |-> TRUE,
                                 aiModel |-> cfg.primary])],
          cost |-> calculateCost(QuickPromptLength(batch) + 4 * maxTokensQuick,
                                 cfg.primary)]

\* QuickFallback, had the catch block pushed nothing for the failed batch
QuickFallback_DropsBatch(batch, error) == <<>>

\* the catch block of QuickAIAnalyzer.process
QuickFallback(batch, error) ==
    MapSeq(batch,
           LAMBDA c : Spread(c, [quickAiScore |-> FieldOr(c, "combinedScore", DefaultScore),
                                 aiAnalyzed |-> FALSE,
                                 fallback |-> TRUE,
                                 error |-> error]))

\* QuickIteration, had the loop called analyzeBatch outside a try/catch
QuickIteration_NoCatch(loc, stats, batch, outcome) ==
    IF outcome.threw
    THEN [loc |-> loc, stats |-> stats, escaped |-> TRUE]
    ELSE [loc |-> [loc EXCEPT !.results = @ \o outcome.content,
                              !.totalCost = @ + outcome.cost,
                              !.pos = @ + batchSize],
          stats |-> [stats EXCEPT !.processed = @ + Len(batch)],
          escaped |-> FALSE]

\* One iteration of QuickAIAnalyzer.process's loop once analyzeBatch has settled.
\* outcome: [threw |-> TRUE, error] or [threw |-> FALSE, content, cost].
\* `escaped` tells whether the error leaves process (it never does: the try/catch
\* around analyzeBatch converts it into per-item fallbacks).
QuickIteration(loc, stats, batch, outcome) ==
    IF outcome.threw
    THEN [loc |-> [loc EXCEPT !.results = @ \o QuickFallback(batch, outcome.error),
                              !.pos = @ + batchSize],
          stats |-> [stats EXCEPT !.errors = @ + Len(batch)],
          escaped |-> FALSE]
    ELSE [loc |-> [loc EXCEPT !.results = @ \o outcome.content,
                              !.totalCost = @ + outcome.cost,
                              !.pos = @ + batchSize],
          stats |-> [stats EXCEPT !.processed = @ + Len(batch)],
          escaped |-> FALSE]

\* contentBatch.slice(i, i + batchSize)
QuickBatch(contentBatch, pos) ==
    SubSeq(contentBatch, pos + 1, Min(pos + batchSize, Len(contentBatch)))

QuickResult(loc, stats, cfg, aiStats) ==
    createResult("QuickAIAnalyzer", stats, loc.results,
                 [totalCost |-> loc.totalCost, batchSize |-> batchSize,
                  model |-> cfg.primary, aiStats |-> aiStats])

\* ----------------------------------------------------------- FullAIAnalyzer
PrevScore(content) == FieldOr(content, "quickAiScore", FieldOr(content, "combinedScore", 0))

\* selectTopCandidates, had the slice(0, maxFullAnalysis) been left out
selectTopCandidates_NoCap(contentBatch) ==
    SortDesc(FilterSeq(contentBatch, LAMBDA c : PrevScore(c) >= fullAnalysisThreshold),
             PrevScore)

\* selectTopCandidates, had the threshold filter been left out
selectTopCandidates_NoThreshold(contentBatch) ==
    LET sorted == SortDesc(contentBatch, PrevScore)
    IN SubSeq(sorted, 1, Min(maxFullAnalysis, Len(sorted)))

selectTopCandidates(contentBatch) ==
    LET eligible == FilterSeq(contentBatch, LAMBDA c : PrevScore(c) >= fullAnalysisThreshold)
        sorted == SortDesc(eligible, PrevScore)
    IN SubSeq(sorted, 1, Min(maxFullAnalysis, Len(sorted)))

\* PromptsConfig.fullAnalysis(...).length
FullPromptLength(content) == 600 + content.titleLen + content.descLen

\* validateAnalysis: defaults for the required fields
validateAnalysis(analysis) ==
    Spread(analysis,
           [relevanceScore |-> FieldOr(analysis, "relevanceScore", DefaultScore),
            summary |-> IF "summary" \in DOMAIN analysis THEN analysis.summary
                        ELSE "Analysis completed",
            categories |-> IF "categories" \in DOMAIN analysis THEN analysis.categories
                           ELSE <<"General">>,
            highlights |-> IF "highlights" \in DOMAIN analysis THEN analysis.highlights
                           ELSE <<>>,
            keyPoints |-> IF "keyPoints" \in DOMAIN analysis THEN analysis.keyPoints
                          ELSE <<>>,
            sentiment |-> IF "sentiment" \in DOMAIN analysis THEN analysis.sentiment
                          ELSE "neutral"])

\* analyzeContent after makeRequest returned `payload`: parseResponse throws on an
\* unparsable body, validateAnalysis on a body that is no object
analyzeContent(content, payload, cfg) ==
    IF payload.kind # "analysis"
    THEN [threw |-> TRUE, error |-> payload.kind]
    ELSE LET fullAnalysis == validateAnalysis(payload.analysis)
         IN [threw |-> FALSE,
             content |->
                Spread(content,
                       [fullAnalysis |-> fullAnalysis,
                        finalRelevanceScore |->
                            NumOr(fullAnalysis.relevanceScore,
                                  FieldOr(content, "quickAiScore", DefaultScore)),
                        highlights |-> fullAnalysis.highlights,
                        categories |-> fullAnalysis.categories,
                        summary |-> fullAnalysis.summary,
                        keyPoints |-> fullAnalysis.keyPoints,
                        aiProcessed |-> TRUE,
                        processingStage |-> "full_ai",
                        aiModel |-> cfg.primary]),
             cost |-> calculateCost(FullPromptLength(content) + 4 * maxTokensFull,
                                    cfg.primary)]

\* FullFallback, had the catch block built the item without spreading content
FullFallback_NoSpread(content, error) ==
    [id |-> content.id,
     finalRelevanceScore |->
         FieldOr(content, "quickAiScore", FieldOr(content, "combinedScore", DefaultScore)),
     aiProcessed |-> FALSE,
     error |-> error,
     processingStage |-> "quick_ai_only"]

\* the catch block of FullAIAnalyzer.process's loop
FullFallback(content, error) ==
    Spread(content,
           [finalRelevanceScore |->
                FieldOr(content, "quickAiScore",
                        FieldOr(content, "combinedScore", DefaultScore)),
            aiProcessed |-> FALSE,
            error |-> error,
            processingStage |-> "quick_ai_only"])

\* FullIteration, had the catch block left the loop after pushing the fallback
FullIteration_StopsOnError(loc, stats, content, outcome) ==
    IF outcome.threw
    THEN [loc |-> [loc EXCEPT !.results = Append(@, FullFallback(content, outcome.error)),
                              !.k = Len(loc.topCandidates) + 1],
          stats |-> [stats EXCEPT !.errors = @ + 1],
          escaped |-> FALSE]
    ELSE [loc |-> [loc EXCEPT !.results = Append(@, outcome.content),
                              !.totalCost = @ + outcome.cost,
                              !.k = @ + 1],
          stats |-> [stats EXCEPT !.processed = @ + 1],
          escaped |-> FALSE]

\* One iteration of FullAIAnalyzer.process's loop once analyzeContent has settled
FullIteration(loc, stats, content, outcome) ==
    IF outcome.threw
    THEN [loc |-> [loc EXCEPT !.results = Append(@, FullFallback(content, outcome.error)),
                              !.k = @ + 1],
          stats |-> [stats EXCEPT !.errors = @ + 1],
          escaped |-> FALSE]
    ELSE [loc |-> [loc EXCEPT !.results = Append(@, outcome.content),
                              !.totalCost = @ + outcome.cost,
                              !.k = @ + 1],
          stats |-> [stats EXCEPT !.processed = @ + 1],
          escaped |-> FALSE]

\* RemainingContent, had the filter on the selected ids (line 65) been left out
RemainingContent_KeepsSelected(contentBatch, topCandidates) ==
    MapSeq(contentBatch,
           LAMBDA c : Spread(c,
               [finalRelevanceScore |->
                    FieldOr(c, "quickAiScore", FieldOr(c, "combinedScore", DefaultScore)),
                aiProcessed |-> IF "aiAnalyzed" \in DOMAIN c THEN c.aiAnalyzed ELSE FALSE,
                processingStage |-> IF "aiAnalyzed" \in DOMAIN c /\ c.aiAnalyzed
                                    THEN "quick_ai" ELSE "keyword_filtered"]))

\* the items that did not get full analysis
RemainingContent(contentBatch, topCandidates) ==
    MapSeq(FilterSeq(contentBatch,
                     LAMBDA c : ~\E n \in 1..Len(topCandidates) : topCandidates[n].id = c.id),
           LAMBDA c : Spread(c,
               [finalRelevanceScore |->
                    FieldOr(c, "quickAiScore", FieldOr(c, "combinedScore", DefaultScore)),
                aiProcessed |-> IF "aiAnalyzed" \in DOMAIN c THEN c.aiAnalyzed ELSE FALSE,
                processingStage |-> IF "aiAnalyzed" \in DOMAIN c /\ c.aiAnalyzed
                                    THEN "quick_ai" ELSE "keyword_filtered"]))

\* FullAIAnalyzer.process when no candidate meets the threshold
FullResultNone(contentBatch, stats) ==
    createResult("FullAIAnalyzer", stats, contentBatch,
                 [candidatesSelected |-> 0, threshold |-> fullAnalysisThreshold,
                  totalCost |-> 0])

\* FullAIAnalyzer.process after its loop
FullResult(contentBatch, loc, stats, cfg) ==
    LET allResults == SortDesc(loc.results \o RemainingContent(contentBatch, loc.topCandidates),
                               LAMBDA c : c.finalRelevanceScore)
    IN createResult("FullAIAnalyzer", stats, allResults,
                    [candidatesSelected |-> Len(loc.topCandidates),
                     fullyAnalyzed |-> Len(loc.results),
                     totalCost |-> loc.totalCost,
                     threshold |-> fullAnalysisThreshold,
                     model |-> cfg.primary])

\* --------------------------------------------------------- AnalysisPipeline
\* this.filters, in constructor order
filters == <<"BasicContentFilter", "KeywordRelevanceFilter", "QualityScorer",
             "QuickAIAnalyzer", "FullAIAnalyzer">>

NewFilterStats == [processed |-> 0, filtered |-> 0, errors |-> 0]

\* item.finalRelevanceScore || item.quickAiScore || item.combinedScore || 0
FinalScore(item) ==
    FieldOr(item, "finalRelevanceScore",
            FieldOr(item, "quickAiScore", FieldOr(item, "combinedScore", 0)))

\* applyFinalFilter, had it sorted without cutting at the minimum
applyFinalFilter_NoCutoff(content) == SortDesc(content, FinalScore)

applyFinalFilter(content) ==
    SortDesc(FilterSeq(content, LAMBDA item : FinalScore(item) >= minTitleRelevance),
             FinalScore)

\* StageEntry, had the stage cost been left out of the entry
StageEntry_NoCost(name, result, stats) ==
    [inputCount |-> stats.processed,
     outputCount |-> Len(result.content),
     cost |-> 0,
     metadata |-> result.metadata]

\* the entry process records for a stage that resolved
StageEntry(name, result, stats) ==
    [inputCount |-> stats.processed,
     outputCount |-> Len(result.content),
     cost |-> FieldOr(result.metadata, "totalCost", 0),
     metadata |-> result.metadata]

\* the entry process records for a stage that threw
ErrorEntry(error, content) ==
    [error |-> error, inputCount |-> Len(content), outputCount |-> 0]

createCostBreakdown(results) ==
    LET key(name) == UnderscoreCapitals(ToLower(name))
    IN [k \in {key(name) : name \in DOMAIN results} |->
          LET name == CHOOSE n \in DOMAIN results : key(n) = k
          IN FieldOr(results[name], "cost", 0)]

createStagesSummary(results) ==
    LET key(name) == ToLower(name) \o "Count"
    IN [k \in {key(name) : name \in DOMAIN results} |->
          LET name == CHOOSE n \in DOMAIN results : key(n) = k
          IN FieldOr(results[name], "outputCount", 0)]

createFinalResult(analyzedContent, originalCount, cost, results) ==
    [analyzedContent |-> analyzedContent,
     cost |-> [total |-> cost, breakdown |-> createCostBreakdown(results)],
     stages |-> createStagesSummary(results),
     pipelineStats |-> [originalCount |-> originalCount,
                        finalCount |-> Len(analyzedContent),
                        stages |-> Cardinality(DOMAIN results)]]

\* ------------------------------------------------------------------- state
VARIABLES
    cfg,            \* AnalysisConfig.models: [primary, fallback]
    pc,             \* where process is: "idle", "loop", "quick", "full", "await", "final", "done"
    i,              \* process's loop index (1-based)
    contentBatch,   \* process's arguments
    userInterests,
    currentContent, \* process's locals
    totalCost,
    stageResults,
    filterStats,    \* this.stats of each filter
    loc,            \* the locals of the AI stage that is running
    clientStats,    \* this.stats of each stage's OpenRouterService
    inflight,       \* the request awaiting its response, or NoRequest
    result,         \* what process returned, or NoResult
    scorer,         \* environment: what the remote scorer answers in this run
    faults,         \* environment: how many attempts of this run went wrong
    calls,          \* history: the filter.process calls of this run, in order
    chain           \* history: the attempts of the latest makeRequest call chain

vars == <<cfg, pc, i, contentBatch, userInterests, currentContent, totalCost,
          stageResults, filterStats, loc, clientStats, inflight, result, scorer, faults,
          calls, chain>>

NoRequest == [none |-> TRUE]
NoResult == [none |-> TRUE]
NoLocals == [none |-> TRUE]

Clients == {"QuickAIAnalyzer", "FullAIAnalyzer"}

\* The remote scorer of one run: the relevance it gives each item in a quick batch
\* (`quick`), the relevanceScore of its detailed analysis (`deep`, or no such field
\* when `deepHasScore` is FALSE), and whether its responses report token usage.
\* Scores are in thousandths; a scorer is not bound to stay within [0,1].
QuickScorers ==
    { [id \in Ids |-> v] : v \in {0, 200, 800, 1200} }
    \cup { [id \in Ids |-> IF id \in {2, 3} THEN 800 ELSE 200],
           [id \in Ids |-> IF id \in {5, 6} THEN 0 ELSE 1200] }

Scorers ==
    { sc \in [quick : QuickScorers, deep : {0, 900}, deepHasScore : BOOLEAN,
              usage : {0, 120}] : sc.deepHasScore \/ sc.deep = 0 }

IdleScorer == [quick |-> [id \in Ids |-> 0], deep |-> 0, deepHasScore |-> FALSE,
               usage |-> 0]

Init ==
    /\ cfg \in {[primary |-> Gemini, fallback |-> Llama],
                [primary |-> Horizon, fallback |-> Llama]}
    /\ pc = "idle"
    /\ i = 0
    /\ contentBatch = <<>>
    /\ userInterests = IMEmpty
    /\ currentContent = <<>>
    /\ totalCost = 0
    /\ stageResults = <<>>
    /\ filterStats = [f \in {filters[n] : n \in 1..Len(filters)} |-> NewFilterStats]
    /\ loc = NoLocals
    /\ clientStats = [c \in Clients |-> NewClientStats]
    /\ inflight = NoRequest
    /\ result = NoResult
    /\ scorer = IdleScorer
    /\ faults = 0
    /\ calls = <<>>
    /\ chain = <<>>

\* process lines 31-38
StartRun ==
    /\ pc = "idle"
    /\ \E batch \in Batches, interests \in InterestModels :
          /\ contentBatch' = batch
          /\ userInterests' = interests
          /\ currentContent' = batch
    /\ scorer' \in Scorers
    /\ totalCost' = 0
    /\ stageResults' = <<>>
    /\ i' = 1
    /\ pc' = "loop"
    /\ UNCHANGED <<cfg, filterStats, loc, clientStats, inflight, result, faults, calls, chain>>

\* filter.process(currentContent, userInterests) is called (line 48)
Called(name) == Append(calls, [name |-> name, input |-> currentContent, settled |-> FALSE])

Settled(log, outcome) ==
    [log EXCEPT ![Len(log)] = Spread(@, [settled |-> TRUE] @@ outcome)]

\* StageResolved, had line 51 been left out: the next stage gets the old list
StageResolved_KeepsContent(name, res, stats, log) ==
    /\ currentContent' = currentContent
    /\ totalCost' = totalCost + FieldOr(res.metadata, "totalCost", 0)
    /\ stageResults' = (name :> StageEntry(name, res, stats)) @@ stageResults
    /\ filterStats' = [filterStats EXCEPT ![name] = stats]
    /\ calls' = Settled(log, [output |-> res.content])
    /\ IF Len(res.content) = 0 \/ i = Len(filters)
       THEN pc' = "final" /\ i' = i
       ELSE pc' = "loop" /\ i' = i + 1

\* StageResolved, had the early exit of lines 72-76 been left out
StageResolved_NoEarlyExit(name, res, stats, log) ==
    /\ currentContent' = res.content
    /\ totalCost' = totalCost + FieldOr(res.metadata, "totalCost", 0)
    /\ stageResults' = (name :> StageEntry(name, res, stats)) @@ stageResults
    /\ filterStats' = [filterStats EXCEPT ![name] = stats]
    /\ calls' = Settled(log, [output |-> res.content])
    /\ IF i = Len(filters)
       THEN pc' = "final" /\ i' = i
       ELSE pc' = "loop" /\ i' = i + 1

\* process lines 50-76: the stage resolved with `res`
StageResolved(name, res, stats, log) ==
    /\ currentContent' = res.content
    /\ totalCost' = totalCost + FieldOr(res.metadata, "totalCost", 0)
    /\ stageResults' = (name :> StageEntry(name, res, stats)) @@ stageResults
    /\ filterStats' = [filterStats EXCEPT ![name] = stats]
    /\ calls' = Settled(log, [output |-> res.content])
    /\ IF Len(res.content) = 0 \/ i = Len(filters)
       THEN pc' = "final" /\ i' = i
       ELSE pc' = "loop" /\ i' = i + 1

\* StageThrew, had the catch block discarded the list computed so far
StageThrew_DropsContent(name, error, stats, log) ==
    /\ stageResults' = (name :> ErrorEntry(error, currentContent)) @@ stageResults
    /\ filterStats' = [filterStats EXCEPT ![name] = stats]
    /\ calls' = Settled(log, [error |-> error])
    /\ pc' = "final"
    /\ currentContent' = <<>>
    /\ UNCHANGED <<totalCost, i>>

\* process lines 78-89: the stage threw
StageThrew(name, error, stats, log) ==
    /\ stageResults' = (name :> ErrorEntry(error, currentContent)) @@ stageResults
    /\ filterStats' = [filterStats EXCEPT ![name] = stats]
    /\ calls' = Settled(log, [error |-> error])
    /\ pc' = "final"
    /\ UNCHANGED <<currentContent, totalCost, i>>

\* a stage that settles without awaiting anything external
LocalStage(name, out) ==
    /\ pc = "loop"
    /\ filters[i] = name
    /\ IF out.threw
       THEN StageThrew(name, out.error, out.stats, Called(name))
       ELSE StageResolved(name, out.result, out.stats, Called(name))
    /\ UNCHANGED <<cfg, contentBatch, userInterests, loc, clientStats, inflight, result,
                   scorer, faults, chain>>

BasicStage ==
    LocalStage("BasicContentFilter",
               BasicProcess(currentContent, filterStats["BasicContentFilter"]))

KeywordStage ==
    LocalStage("KeywordRelevanceFilter",
               KeywordProcess(currentContent, userInterests,
                              filterStats["KeywordRelevanceFilter"]))

QualityStage ==
    LocalStage("QualityScorer",
               QualityProcess(currentContent, userInterests, filterStats["QualityScorer"]))

\* QuickAIAnalyzer.process is called: lines 182-186
QuickStart ==
    /\ pc = "loop"
    /\ filters[i] = "QuickAIAnalyzer"
    /\ calls' = Called("QuickAIAnalyzer")
    /\ loc' = [results |-> <<>>, totalCost |-> 0, pos |-> 0]
    /\ pc' = "quick"
    /\ UNCHANGED <<cfg, i, contentBatch, userInterests, currentContent, totalCost,
                   stageResults, filterStats, clientStats, inflight, result, scorer, faults,
                   chain>>

\* Issue, had the stage's loop not awaited the call it makes
Issue_NotAwaited(client, subject) ==
    /\ inflight' = [client |-> client, model |-> cfg.primary, subject |-> subject]
    /\ clientStats' = [clientStats EXCEPT ![client] = makeRequestStart(@)]
    /\ chain' = <<>>
    /\ pc' = pc

\* a makeRequest call: the primary attempt is counted and posted
Issue(client, subject) ==
    /\ inflight' = [client |-> client, model |-> cfg.primary, subject |-> subject]
    /\ clientStats' = [clientStats EXCEPT ![client] = makeRequestStart(@)]
    /\ chain' = <<>>
    /\ pc' = "await"

\* the loop of QuickAIAnalyzer.process takes its next batch and calls analyzeBatch
QuickIssue ==
    /\ pc = "quick"
    /\ loc.pos < Len(currentContent)
    /\ Issue("QuickAIAnalyzer", QuickBatch(currentContent, loc.pos))
    /\ UNCHANGED <<cfg, i, contentBatch, userInterests, currentContent, totalCost,
                   stageResults, filterStats, loc, result, scorer, faults, calls>>

\* the loop is over: lines 216-224, then process lines 50-76
QuickEnd ==
    /\ pc = "quick"
    /\ loc.pos >= Len(currentContent)
    /\ StageResolved("QuickAIAnalyzer",
                     QuickResult(loc, filterStats["QuickAIAnalyzer"], cfg,
                                 clientStats["QuickAIAnalyzer"]),
                     filterStats["QuickAIAnalyzer"], calls)
    /\ loc' = NoLocals
    /\ chain' = <<>>
    /\ UNCHANGED <<cfg, contentBatch, userInterests, clientStats, inflight, result, scorer,
                   faults>>

\* FullAIAnalyzer.process is called and selects no candidate: lines 18-31
FullStartNone ==
    /\ pc = "loop"
    /\ filters[i] = "FullAIAnalyzer"
    /\ selectTopCandidates(currentContent) = <<>>
    /\ StageResolved("FullAIAnalyzer",
                     FullResultNone(currentContent, filterStats["FullAIAnalyzer"]),
                     filterStats["FullAIAnalyzer"], Called("FullAIAnalyzer"))
    /\ UNCHANGED <<cfg, contentBatch, userInterests, loc, clientStats, inflight, result,
                   scorer, faults, chain>>

\* FullAIAnalyzer.process is called and selects candidates: lines 18-36
FullStart ==
    /\ pc = "loop"
    /\ filters[i] = "FullAIAnalyzer"
    /\ selectTopCandidates(currentContent) # <<>>
    /\ calls' = Called("FullAIAnalyzer")
    /\ loc' = [topCandidates |-> selectTopCandidates(currentContent),
               results |-> <<>>, totalCost |-> 0, k |-> 1]
    /\ pc' = "full"
    /\ UNCHANGED <<cfg, i, contentBatch, userInterests, currentContent, totalCost,
                   stageResults, filterStats, clientStats, inflight, result, scorer, faults,
                   chain>>

\* the loop of FullAIAnalyzer.process takes its next candidate and calls analyzeContent
FullIssue ==
    /\ pc = "full"
    /\ loc.k <= Len(loc.topCandidates)
    /\ Issue("FullAIAnalyzer", <<loc.topCandidates[loc.k]>>)
    /\ UNCHANGED <<cfg, i, contentBatch, userInterests, currentContent, totalCost,
                   stageResults, filterStats, loc, result, scorer, faults, calls>>

\* the loop is over: lines 63-85, then process lines 50-76
FullEnd ==
    /\ pc = "full"
    /\ loc.k > Len(loc.topCandidates)
    /\ StageResolved("FullAIAnalyzer",
                     FullResult(currentContent, loc, filterStats["FullAIAnalyzer"], cfg),
                     filterStats["FullAIAnalyzer"], calls)
    /\ loc' = NoLocals
    /\ chain' = <<>>
    /\ UNCHANGED <<cfg, contentBatch, userInterests, clientStats, inflight, result, scorer,
                   faults>>

\* what the stage that awaited makeRequest does once the call chain has settled:
\* chainOutcome is [threw |-> TRUE, error] or [threw |-> FALSE, payload]
StageContinues(chainOutcome) ==
    LET client == inflight.client
        stats == filterStats[client]
        outcome == IF chainOutcome.threw THEN chainOutcome
                   ELSE IF client = "QuickAIAnalyzer"
                        THEN analyzeBatch(inflight.subject, chainOutcome.payload, cfg)
                        ELSE analyzeContent(inflight.subject[1], chainOutcome.payload, cfg)
        it == IF client = "QuickAIAnalyzer"
              THEN QuickIteration(loc, stats, inflight.subject, outcome)
              ELSE FullIteration(loc, stats, inflight.subject[1], outcome)
    IN /\ inflight' = NoRequest
       /\ IF it.escaped
          THEN /\ StageThrew(client, outcome.error, it.stats, calls)
               /\ loc' = NoLocals
          ELSE /\ loc' = it.loc
               /\ filterStats' = [filterStats EXCEPT ![client] = it.stats]
               /\ pc' = IF client = "QuickAIAnalyzer" THEN "quick" ELSE "full"
               /\ UNCHANGED <<i, currentContent, totalCost, stageResults, calls>>

\* makeRequest after its await: the attempt's response (or rejection) arrives
Respond(response) ==
    /\ pc = "await"
    /\ LET r == makeRequestResolve(clientStats[inflight.client], cfg, inflight.model,
                                   response)
       IN /\ chain' = Append(chain, [model |-> inflight.model, kind |-> response.kind,
                                     next |-> r.next,
                                     payload |-> IF response.kind = "ok"
                                                 THEN response.payload
                                                 ELSE [kind |-> "none"]])
          /\ IF r.next = "retry"
             THEN /\ clientStats' = [clientStats EXCEPT
                                        ![inflight.client] = makeRequestStart(r.stats)]
                  /\ inflight' = [inflight EXCEPT !.model = cfg.fallback]
                  /\ UNCHANGED <<pc, i, currentContent, totalCost, stageResults,
                                 filterStats, loc, calls>>
             ELSE /\ clientStats' = [clientStats EXCEPT ![inflight.client] = r.stats]
                  /\ StageContinues(IF r.next = "throw"
                                    THEN [threw |-> TRUE, error |-> response.kind]
                                    ELSE [threw |-> FALSE, payload |-> response.payload])
    /\ UNCHANGED <<cfg, contentBatch, userInterests, result, scorer>>

\* an attempt that goes wrong uses up one of the run's MaxFaults
Faulty(response) ==
    /\ faults < MaxFaults
    /\ faults' = faults + 1
    /\ Respond(response)

\* response.data of a successful request: the message content and the usage report
Body(payload) ==
    IF scorer.usage > 0
    THEN [kind |-> "ok", payload |-> payload, usage |-> scorer.usage]
    ELSE [kind |-> "ok", payload |-> payload]

\* the request fails (network or HTTP error)
RequestError == Faulty([kind |-> "error"])

\* the request exceeds the 30 second timeout
RequestTimeout == Faulty([kind |-> "timeout"])

\* the response carries no body: response.data is null
EmptyResponse == Faulty([kind |-> "nobody"])

\* the message content is not JSON
UnparsableResponse == Faulty(Body([kind |-> "unparsable"]))

\* the scores array of a quick batch has one score too few or too many
WrongLengthResponse ==
    /\ pc = "await"
    /\ inflight.client = "QuickAIAnalyzer"
    /\ \E m \in {Len(inflight.subject) - 1, Len(inflight.subject) + 1} :
          Faulty(Body([kind |-> "scores", scores |-> [k \in 1..m |-> 800]]))

\* the detailed analysis is JSON but no object
NotObjectResponse ==
    /\ pc = "await"
    /\ inflight.client = "FullAIAnalyzer"
    /\ Faulty(Body([kind |-> "notobject"]))

\* the scorer answers a quick batch with one score per item
ScoresResponse ==
    /\ pc = "await"
    /\ inflight.client = "QuickAIAnalyzer"
    /\ Respond(Body([kind |-> "scores",
                     scores |-> [k \in 1..Len(inflight.subject) |->
                                   scorer.quick[inflight.subject[k].id]]]))
    /\ UNCHANGED faults

\* the scorer answers with a detailed analysis
AnalysisResponse ==
    /\ pc = "await"
    /\ inflight.client = "FullAIAnalyzer"
    /\ Respond(Body([kind |-> "analysis",
                     analysis |-> IF scorer.deepHasScore
                                  THEN [relevanceScore |-> scorer.deep]
                                  ELSE <<>>]))
    /\ UNCHANGED faults

\* process lines 92-98
Finalize ==
    /\ pc = "final"
    /\ result' = createFinalResult(applyFinalFilter(currentContent), Len(contentBatch),
                                   totalCost, stageResults)
    /\ pc' = "done"
    /\ UNCHANGED <<cfg, i, contentBatch, userInterests, currentContent, totalCost,
                   stageResults, filterStats, loc, clientStats, inflight, scorer, faults,
                   calls, chain>>

Next ==
    \/ StartRun
    \/ BasicStage
    \/ KeywordStage
    \/ QualityStage
    \/ QuickStart
    \/ QuickIssue
    \/ RequestError
    \/ RequestTimeout
    \/ EmptyResponse
    \/ UnparsableResponse
    \/ WrongLengthResponse
    \/ NotObjectResponse
    \/ ScoresResponse
    \/ AnalysisResponse
    \/ QuickEnd
    \/ FullStartNone
    \/ FullStart
    \/ FullIssue
    \/ FullEnd
    \/ Finalize

Spec == Init /\ [][Next]_vars

\* ---------------------------------------------- a scoring service that is down
\* every attempt is rejected, whatever the model
OutageResponse ==
    /\ pc = "await"
    /\ \E kind \in {"error", "timeout"} : Respond([kind |-> kind])
    /\ UNCHANGED faults

NextOutage ==
    \/ StartRun
    \/ BasicStage
    \/ KeywordStage
    \/ QualityStage
    \/ QuickStart
    \/ QuickIssue
    \/ OutageResponse
    \/ QuickEnd
    \/ FullStartNone
    \/ FullStart
    \/ FullIssue
    \/ FullEnd
    \/ Finalize

SpecOutage == Init /\ [][NextOutage]_vars

\* ------------------------------ a primary model that is down, a fallback that works
\* every attempt on the primary model is rejected
PrimaryFails ==
    /\ pc = "await"
    /\ inflight.model = cfg.primary
    /\ \E kind \in {"error", "timeout"} : Respond([kind |-> kind])
    /\ UNCHANGED faults

FallbackScores ==
    /\ pc = "await"
    /\ inflight.model = cfg.fallback
    /\ ScoresResponse

FallbackAnalysis ==
    /\ pc = "await"
    /\ inflight.model = cfg.fallback
    /\ AnalysisResponse

NextFailover ==
    \/ StartRun
    \/ BasicStage
    \/ KeywordStage
    \/ QualityStage
    \/ QuickStart
    \/ QuickIssue
    \/ PrimaryFails
    \/ FallbackScores
    \/ FallbackAnalysis
    \/ QuickEnd
    \/ FullStartNone
    \/ FullStart
    \/ FullIssue
    \/ FullEnd
    \/ Finalize

SpecFailover == Init /\ [][NextFailover]_vars

\* ------------------------------------- selectTopCandidates on longer lists
\* Quick Analysis outputs of up to MaxSelect items, each scored just below the
\* deep-analysis threshold, at it, or above it
QuickScored == {[combinedScore |-> 500, quickAiScore |-> q, aiAnalyzed |-> TRUE] :
                   q \in {fullAnalysisThreshold - 10, fullAnalysisThreshold, 900}}

InitSelect ==
    /\ cfg = [primary |-> Gemini, fallback |-> Llama]
    /\ pc = "select"
    /\ i = 0
    /\ contentBatch = <<>>
    /\ userInterests = IMEmpty
    /\ currentContent = <<>>
    /\ totalCost = 0
    /\ stageResults = <<>>
    /\ filterStats = [f \in {filters[n] : n \in 1..Len(filters)} |-> NewFilterStats]
    /\ loc = [topCandidates |-> <<>>]
    /\ clientStats = [c \in Clients |-> NewClientStats]
    /\ inflight = NoRequest
    /\ result = NoResult
    /\ scorer = IdleScorer
    /\ faults = 0
    /\ calls = <<>>
    /\ chain = <<>>

\* FullAIAnalyzer.process line 22 on a list one item longer
SelectCandidates ==
    /\ pc = "select"
    /\ Len(currentContent) < MaxSelect
    /\ \E item \in QuickScored :
          currentContent' = Append(currentContent,
                                   Spread(item, [id |-> Len(currentContent) + 1]))
    /\ loc' = [topCandidates |-> selectTopCandidates(currentContent')]
    /\ UNCHANGED <<cfg, pc, i, contentBatch, userInterests, totalCost, stageResults,
                   filterStats, clientStats, inflight, result, scorer, faults, calls,
                   chain>>

NextSelect == SelectCandidates

SpecSelect == InitSelect /\ [][NextSelect]_vars

\* ------------------------------------------------ interest normalization
\* The values a priority field takes: a number, NaN, or a string that is no number.
\* An object (a category map, a subcategory map) is the sequence of its entries
\* [name, value] in insertion order; an entry whose value is null is [isNull].
Num(n) == [number |-> n]
NaN == [nan |-> TRUE]
Text == [string |-> "high"]

IsNum(v) == "number" \in DOMAIN v

Falsy(v) == v = Num(0) \/ v = NaN

\* Number(v) as Math.max and Math.min apply it
ToNumber(v) == IF IsNum(v) THEN v ELSE NaN

MathMax(a, b) ==
    IF ~IsNum(ToNumber(a)) \/ ~IsNum(ToNumber(b)) THEN NaN
    ELSE IF a.number >= b.number THEN a ELSE b

MathMin(a, b) ==
    IF ~IsNum(ToNumber(a)) \/ ~IsNum(ToNumber(b)) THEN NaN
    ELSE IF a.number <= b.number THEN a ELSE b

\* data.priority || 5
PriorityOr5(data) ==
    IF "priority" \in DOMAIN data /\ ~Falsy(data.priority) THEN data.priority
    ELSE Num(DefaultPriority)

\* data.keywords || [] and data.subcategories || {}
KeywordsOrNone(data) == IF "keywords" \in DOMAIN data THEN data.keywords ELSE <<>>

SubcategoriesOrNone(data) ==
    IF "subcategories" \in DOMAIN data THEN data.subcategories ELSE <<>>

\* obj[name], or NoEntry
NoEntry == [none |-> TRUE]

Lookup(obj, name) ==
    IF \E k \in 1..Len(obj) : obj[k].name = name
    THEN obj[CHOOSE k \in 1..Len(obj) : obj[k].name = name].value
    ELSE NoEntry

\* obj[name] = value
SetKey(obj, name, value) ==
    IF \E k \in 1..Len(obj) : obj[k].name = name
    THEN [k \in 1..Len(obj) |-> IF obj[k].name = name
                                THEN [name |-> name, value |-> value] ELSE obj[k]]
    ELSE Append(obj, [name |-> name, value |-> value])

\* { ...a, ...b }
SpreadObjects(a, b) ==
    LET RECURSIVE Put(_, _)
        Put(acc, k) == IF k > Len(b) THEN acc
                       ELSE Put(SetKey(acc, b[k].name, b[k].value), k + 1)
    IN Put(a, 1)

\* String.prototype.trim on the names the modelled inputs use
Trim(str) == IF str = " AI " THEN "AI" ELSE IF str = "  " THEN "" ELSE str

\* PUT /interests: the body's `interests` made into processedInterests
processInterests(interests) ==
    IF "array" \in DOMAIN interests
    THEN LET RECURSIVE Each(_, _)
             Each(acc, k) ==
                 IF k > Len(interests.array) THEN acc
                 ELSE Each(IF Trim(interests.array[k]) # ""
                           THEN SetKey(acc, Trim(interests.array[k]),
                                       [priority |-> Num(5), subcategories |-> <<>>,
                                        keywords |-> <<>>])
                           ELSE acc,
                           k + 1)
         IN Each(<<>>, 1)
    ELSE LET RECURSIVE Each(_, _)
             Each(acc, k) ==
                 IF k > Len(interests.object) THEN acc
                 ELSE LET data == interests.object[k].value
                      IN Each(IF "isNull" \in DOMAIN data THEN acc
                              ELSE SetKey(acc, interests.object[k].name,
                                          [priority |-> MathMax(Num(1),
                                                          MathMin(Num(10), PriorityOr5(data))),
                                           subcategories |-> SubcategoriesOrNone(data),
                                           keywords |-> KeywordsOrNone(data)]),
                              k + 1)
         IN Each(<<>>, 1)

\* what aggregateUserInterests returns when it is given no user
DefaultInterests(withSubcategories) ==
    LET entry(kw) == IF withSubcategories
                     THEN [priority |-> Num(5), keywords |-> kw, subcategories |-> <<>>]
                     ELSE [priority |-> Num(5), keywords |-> kw]
    IN << [name |-> "programming",
           value |-> entry(<<"coding", "development", "software">>)],
          [name |-> "technology", value |-> entry(<<"tech", "innovation">>)] >>

\* the loop over the users, with the body of the loop over one user's entries given
\* by legacy (an array of names) and merge (a category and its data); reading a
\* property of null data throws a TypeError out of aggregateUserInterests
AggregateLoop(users, legacy(_, _), merge(_, _, _)) ==
    LET RECURSIVE Names(_, _, _)
        Names(acc, arr, k) ==
            IF k > Len(arr) THEN acc ELSE Names(legacy(acc, arr[k]), arr, k + 1)
        RECURSIVE Entries(_, _, _)
        Entries(acc, obj, k) ==
            IF k > Len(obj) THEN [threw |-> FALSE, value |-> acc]
            ELSE IF "isNull" \in DOMAIN obj[k].value
                 THEN [threw |-> TRUE, error |-> "TypeError"]
                 ELSE Entries(merge(acc, obj[k].name, obj[k].value), obj, k + 1)
        RECURSIVE Users(_, _)
        Users(acc, u) ==
            IF u > Len(users) THEN [threw |-> FALSE, value |-> acc]
            ELSE IF "interests" \notin DOMAIN users[u] THEN Users(acc, u + 1)
            ELSE IF "array" \in DOMAIN users[u].interests
                 THEN Users(Names(acc, users[u].interests.array, 1), u + 1)
                 ELSE LET r == Entries(acc, users[u].interests.object, 1)
                      IN IF r.threw THEN r ELSE Users(r.value, u + 1)
    IN Users(<<>>, 1)

\* SimpleJobQueueRefactored.aggregateUserInterests
aggregateUserInterests(users) ==
    LET legacy(acc, interest) ==
            LET entry == IF Lookup(acc, interest) = NoEntry
                         THEN [priority |-> Num(5), keywords |-> <<>>]
                         ELSE Lookup(acc, interest)
            IN SetKey(acc, interest,
                      [entry EXCEPT !.priority = MathMax(entry.priority, Num(5))])
        merge(acc, category, data) ==
            LET prev == Lookup(acc, category)
                prevPriority == IF prev = NoEntry \/ Falsy(prev.priority)
                                THEN Num(0) ELSE prev.priority
                prevKeywords == IF prev = NoEntry THEN <<>> ELSE prev.keywords
                prevSubs == IF prev = NoEntry THEN <<>> ELSE SubcategoriesOrNone(prev)
            IN SetKey(acc, category,
                      [priority |-> MathMax(prevPriority, PriorityOr5(data)),
                       keywords |-> prevKeywords \o KeywordsOrNone(data),
                       subcategories |-> SpreadObjects(prevSubs,
                                                       SubcategoriesOrNone(data))])
    IN IF users = <<>> THEN [threw |-> FALSE, value |-> DefaultInterests(FALSE)]
       ELSE AggregateLoop(users, legacy, merge)

\* a list with the later duplicates of its elements removed
Unique(seq) ==
    LET RECURSIVE Go(_, _)
        Go(acc, k) == IF k > Len(seq) THEN acc
                      ELSE Go(IF \E n \in 1..Len(acc) : acc[n] = seq[k]
                              THEN acc ELSE Append(acc, seq[k]),
                              k + 1)
    IN Go(<<>>, 1)

\* SimpleJobQueue.aggregateUserInterests
SimpleJobQueue_aggregateUserInterests(users) ==
    LET legacy(acc, interest) ==
            LET entry == IF Lookup(acc, interest) = NoEntry
                         THEN [priority |-> Num(5), keywords |-> <<>>,
                               subcategories |-> <<>>]
                         ELSE Lookup(acc, interest)
            IN SetKey(acc, interest,
                      [entry EXCEPT !.priority = MathMax(entry.priority, Num(5))])
        merge(acc, category, data) ==
            LET prev == Lookup(acc, category)
            IN IF prev = NoEntry
               THEN SetKey(acc, category,
                           [priority |-> PriorityOr5(data),
                            keywords |-> KeywordsOrNone(data),
                            subcategories |-> SubcategoriesOrNone(data)])
               ELSE SetKey(acc, category,
                           [priority |-> MathMax(prev.priority, PriorityOr5(data)),
                            keywords |-> Unique(prev.keywords \o KeywordsOrNone(data)),
                            subcategories |-> SpreadObjects(prev.subcategories,
                                                            SubcategoriesOrNone(data))])
    IN AggregateLoop(users, legacy, merge)

\* The interests a caller may supply: a legacy array of names, or an object whose
\* categories may lack a priority, carry one out of range or one that is no number,
\* lack keywords or subcategories, or be null.
Frontend == [name |-> "Frontend",
             value |-> [priority |-> Num(3), keywords |-> <<"hooks", "css">>]]

RawData ==
    LET full(v) == [priority |-> v, keywords |-> <<"React">>,
                    subcategories |-> <<Frontend>>]
    IN { [f \in D |-> full(v)[f]] :
           v \in {Num(0), Num(-3), Num(7), Num(15), Text},
           D \in SUBSET {"priority", "keywords", "subcategories"} }
       \cup {[isNull |-> TRUE]}

RawInterests ==
    { [array |-> a] : a \in {<<>>, <<"AI", "Web">>, <<"AI", " AI ">>, <<"  ">>} }
    \cup { [object |-> <<>>] }
    \cup { [object |-> <<[name |-> "Programming", value |-> d]>>] : d \in RawData }
    \cup { [object |-> << [name |-> "Programming",
                           value |-> [priority |-> Num(8), keywords |-> <<"React">>,
                                      subcategories |-> <<Frontend>>]],
                          [name |-> "AI", value |-> d] >>] :
             d \in {[priority |-> Num(15)], [priority |-> Num(5), keywords |-> <<>>,
                                             subcategories |-> <<>>]} }

\* the users of a job that aggregates several users' interests
SomeUsers ==
    { [none |-> TRUE],
      [interests |-> [array |-> <<"AI", "Web">>]],
      [interests |-> [object |-> <<[name |-> "AI",
                                    value |-> [priority |-> Num(9),
                                               keywords |-> <<"ml">>]]>>]],
      [interests |-> [object |-> <<[name |-> "AI",
                                    value |-> [priority |-> Num(-3),
                                               keywords |-> <<"ml", "llm">>,
                                               subcategories |-> <<Frontend>>]]>>]] }

UserLists ==
    { <<>> } \cup { <<[interests |-> r]>> : r \in RawInterests }
    \cup UNION { [1..n -> SomeUsers] : n \in 2..MaxUsers }

Normalizers == {"PUT /interests", "SimpleJobQueueRefactored", "SimpleJobQueue"}

InitNormalize ==
    /\ cfg = [primary |-> Gemini, fallback |-> Llama]
    /\ pc = "raw"
    /\ i = 0
    /\ contentBatch = <<>>
    /\ userInterests = NoResult
    /\ currentContent = <<>>
    /\ totalCost = 0
    /\ stageResults = <<>>
    /\ filterStats = [f \in {filters[n] : n \in 1..Len(filters)} |-> NewFilterStats]
    /\ \/ \E r \in RawInterests : loc = [normalizer |-> "PUT /interests", input |-> r]
       \/ \E us \in UserLists, n \in Normalizers \ {"PUT /interests"} :
             loc = [normalizer |-> n, input |-> us]
    /\ clientStats = [c \in Clients |-> NewClientStats]
    /\ inflight = NoRequest
    /\ result = NoResult
    /\ scorer = IdleScorer
    /\ faults = 0
    /\ calls = <<>>
    /\ chain = <<>>

Normalized(out) ==
    /\ userInterests' = out
    /\ pc' = "normalized"
    /\ UNCHANGED <<cfg, i, contentBatch, currentContent, totalCost, stageResults,
                   filterStats, loc, clientStats, inflight, result, scorer, faults,
                   calls, chain>>

\* the handler of PUT /interests stores processedInterests
PutInterests ==
    /\ pc = "raw"
    /\ loc.normalizer = "PUT /interests"
    /\ Normalized([threw |-> FALSE, value |-> processInterests(loc.input)])

\* a job of SimpleJobQueueRefactored aggregates its users' interests
AggregateRefactored ==
    /\ pc = "raw"
    /\ loc.normalizer = "SimpleJobQueueRefactored"
    /\ Normalized(aggregateUserInterests(loc.input))

\* a job of SimpleJobQueue aggregates its users' interests
AggregateQueue ==
    /\ pc = "raw"
    /\ loc.normalizer = "SimpleJobQueue"
    /\ Normalized(SimpleJobQueue_aggregateUserInterests(loc.input))

\* what was stored is supplied again, to the same code
Renormalize ==
    /\ pc = "normalized"
    /\ ~userInterests.threw
    /\ LET again == [object |-> userInterests.value]
       IN userInterests' =
            IF loc.normalizer = "PUT /interests"
            THEN [threw |-> FALSE, value |-> processInterests(again)]
            ELSE IF loc.normalizer = "SimpleJobQueueRefactored"
                 THEN aggregateUserInterests(<<[interests |-> again]>>)
                 ELSE SimpleJobQueue_aggregateUserInterests(<<[interests |-> again]>>)
    /\ loc' = [loc EXCEPT !.input = userInterests.value] @@ [again |-> TRUE]
    /\ pc' = "renormalized"
    /\ UNCHANGED <<cfg, i, contentBatch, currentContent, totalCost, stageResults,
                   filterStats, clientStats, inflight, result, scorer, faults, calls,
                   chain>>

NextNormalize == PutInterests \/ AggregateRefactored \/ AggregateQueue \/ Renormalize

SpecNormalize == InitNormalize /\ [][NextNormalize]_vars

\* ---------------------------------------------- the Basic Filter on one item
\* The items a caller may hand to BasicContentFilter.process: a title, a description
\* or none, a view count or none, a duration or none.
RawDescriptions ==
    { [descLen |-> 0, descTerms |-> {}], [descLen |-> 30, descTerms |-> {}],
      [descLen |-> 60, descTerms |-> {}], [descLen |-> 60, descTerms |-> {"vlog"}],
      [descLen |-> 6000, descTerms |-> {}] }

RawDurations ==
    { PT(0, 10, 0), PT(0, 0, 30), PT(9, 0, 0), [kind |-> "text"], [kind |-> "number"] }

RawItems ==
    LET base == [id : {1}, titleLen : {5, 25},
                 titleTerms : {{}, {"tutorial"}, {"software"}}]
        described == base \cup { Spread(b, d) : b \in base, d \in RawDescriptions }
        viewed == described \cup { Spread(b, [viewCount |-> 50000]) : b \in described }
    IN viewed \cup { Spread(b, [duration |-> d]) : b \in viewed, d \in RawDurations }

InitBasic ==
    /\ cfg = [primary |-> Gemini, fallback |-> Llama]
    /\ pc = "basic"
    /\ i = 1
    /\ \E item \in RawItems : contentBatch = <<item>>
    /\ userInterests = IMEmpty
    /\ currentContent = contentBatch
    /\ totalCost = 0
    /\ stageResults = <<>>
    /\ filterStats = [f \in {filters[n] : n \in 1..Len(filters)} |-> NewFilterStats]
    /\ loc = NoLocals
    /\ clientStats = [c \in Clients |-> NewClientStats]
    /\ inflight = NoRequest
    /\ result = NoResult
    /\ scorer = IdleScorer
    /\ faults = 0
    /\ calls = <<>>
    /\ chain = <<>>

\* BasicContentFilter.process on the batch
FilterBatch ==
    /\ pc = "basic"
    /\ LET out == BasicProcess(currentContent, filterStats["BasicContentFilter"])
       IN /\ currentContent' = out.result.content
          /\ filterStats' = [filterStats EXCEPT !["BasicContentFilter"] = out.stats]
          /\ calls' = Settled(Called("BasicContentFilter"),
                              [output |-> out.result.content])
    /\ pc' = "filtered"
    /\ UNCHANGED <<cfg, i, contentBatch, userInterests, totalCost, stageResults, loc,
                   clientStats, inflight, result, scorer, faults, chain>>

NextBasic == FilterBatch

SpecBasic == InitBasic /\ [][NextBasic]_vars

\* ----------------------------------------- OpenRouterService.batchProcess
\* batchProcess(requests, delayMs) on a service of its own.  loc holds its arguments
\* and locals (i is the 0-based loop index); calls is the history of what it did:
\* the makeRequest calls ([event |-> "request", index]) and the timers it waited
\* for ([event |-> "delay", ms]).
InitBatch ==
    /\ cfg = [primary |-> Gemini, fallback |-> Llama]
    /\ pc = "batch"
    /\ i = 0
    /\ contentBatch = <<>>
    /\ userInterests = IMEmpty
    /\ currentContent = <<>>
    /\ totalCost = 0
    /\ stageResults = <<>>
    /\ filterStats = [f \in {filters[n] : n \in 1..Len(filters)} |-> NewFilterStats]
    /\ \E n \in 0..MaxRequests, delayMs \in {0, 1000} :
          loc = [requests |-> n, delayMs |-> delayMs, i |-> 0, results |-> <<>>]
    /\ clientStats = [c \in Clients |-> NewClientStats]
    /\ inflight = NoRequest
    /\ result = NoResult
    /\ scorer = IdleScorer
    /\ faults = 0
    /\ calls = <<>>
    /\ chain = <<>>

\* line 157: this.makeRequest(...requests[i]) is called and awaited
BatchCall ==
    /\ pc = "batch"
    /\ loc.i < loc.requests
    /\ inflight' = [client |-> "QuickAIAnalyzer", model |-> cfg.primary, subject |-> loc.i]
    /\ clientStats' = [clientStats EXCEPT !["QuickAIAnalyzer"] = makeRequestStart(@)]
    /\ calls' = Append(calls, [event |-> "request", index |-> loc.i])
    /\ pc' = "awaiting"
    /\ UNCHANGED <<cfg, i, contentBatch, userInterests, currentContent, totalCost,
                   stageResults, filterStats, loc, result, scorer, faults, chain>>

\* the attempt in flight settles: makeRequest returns (lines 158-163), retries on the
\* fallback model, or throws into the catch block (lines 164-166)
BatchSettle ==
    /\ pc = "awaiting"
    /\ \E kind \in {"ok", "error", "timeout", "nobody"} :
          LET r == makeRequestResolve(clientStats["QuickAIAnalyzer"], cfg, inflight.model,
                                      [kind |-> kind])
          IN CASE r.next = "return" ->
                    /\ clientStats' = [clientStats EXCEPT !["QuickAIAnalyzer"] = r.stats]
                    /\ inflight' = NoRequest
                    /\ IF loc.i < loc.requests - 1 /\ loc.delayMs > 0
                       THEN /\ loc' = [loc EXCEPT !.results =
                                          Append(@, [success |-> TRUE, index |-> loc.i])]
                            /\ pc' = "delaying"
                       ELSE /\ loc' = [loc EXCEPT !.results =
                                          Append(@, [success |-> TRUE, index |-> loc.i]),
                                                  !.i = @ + 1]
                            /\ pc' = "batch"
               [] r.next = "retry" ->
                    /\ clientStats' = [clientStats EXCEPT !["QuickAIAnalyzer"] =
                                          makeRequestStart(r.stats)]
                    /\ inflight' = [inflight EXCEPT !.model = cfg.fallback]
                    /\ loc' = loc
                    /\ pc' = "awaiting"
               [] r.next = "throw" ->
                    /\ clientStats' = [clientStats EXCEPT !["QuickAIAnalyzer"] = r.stats]
                    /\ inflight' = NoRequest
                    /\ loc' = [loc EXCEPT !.results =
                                  Append(@, [success |-> FALSE, error |-> kind,
                                             index |-> loc.i]),
                                          !.i = @ + 1]
                    /\ pc' = "batch"
    /\ UNCHANGED <<cfg, i, contentBatch, userInterests, currentContent, totalCost,
                   stageResults, filterStats, result, scorer, faults, calls, chain>>

\* line 162: the timer of delayMs fires
BatchDelay ==
    /\ pc = "delaying"
    /\ calls' = Append(calls, [event |-> "delay", ms |-> loc.delayMs])
    /\ loc' = [loc EXCEPT !.i = @ + 1]
    /\ pc' = "batch"
    /\ UNCHANGED <<cfg, i, contentBatch, userInterests, currentContent, totalCost,
                   stageResults, filterStats, clientStats, inflight, result, scorer,
                   faults, chain>>

\* line 169: return results
BatchReturn ==
    /\ pc = "batch"
    /\ loc.i >= loc.requests
    /\ result' = loc.results
    /\ pc' = "returned"
    /\ UNCHANGED <<cfg, i, contentBatch, userInterests, currentContent, totalCost,
                   stageResults, filterStats, loc, clientStats, inflight, scorer, faults,
                   calls, chain>>

NextBatch == BatchCall \/ BatchSettle \/ BatchDelay \/ BatchReturn

SpecBatch == InitBatch /\ [][NextBatch]_vars

\* ------------------------------------------- the detailed analysis of one item
\* array.slice(0, n)
Slice(seq, n) == SubSeq(seq, 1, Min(n, Len(seq)))

\* ComprehensiveAIAnalyzer.validateAndEnrichAnalysis: defaults, the highlights made
\* into {text, relevance, reason} objects, and the arrays cut to their limits
validateAndEnrichAnalysis(analysis, content) ==
    LET arr(f, d) == IF f \in DOMAIN analysis THEN analysis[f] ELSE d
        highlights == [k \in 1..Len(arr("highlights", <<>>)) |->
                         [text |-> analysis.highlights[k], relevance |-> 700,
                          reason |-> "Relevant content identified"]]
        score == FieldOr(analysis, "relevanceScore",
                         FieldOr(content, "combinedScore", DefaultScore))
    IN Spread(analysis,
              [relevanceScore |-> IF score < 0 THEN 0 ELSE Min(ScoreOne, score),
               summary |-> IF "summary" \in DOMAIN analysis THEN analysis.summary
                           ELSE "Analysis of",
               sentiment |-> IF "sentiment" \in DOMAIN analysis THEN analysis.sentiment
                             ELSE "neutral",
               highlights |-> Slice(highlights, maxHighlights),
               keyPoints |-> Slice(arr("keyPoints", <<>>), maxKeyPoints),
               tags |-> Slice(arr("tags", <<>>), maxTags),
               categories |-> Slice(arr("categories", <<"General">>), maxCategories)])

\* ComprehensiveAIAnalyzer.analyzeContent after parseResponse
ComprehensiveEnrich(content, analysis0, config) ==
    LET analysis == validateAndEnrichAnalysis(analysis0, content)
    IN Spread(content,
              [relevanceScore |-> analysis.relevanceScore,
               finalRelevanceScore |-> analysis.relevanceScore,
               summary |-> analysis.summary,
               highlights |-> analysis.highlights,
               keyPoints |-> analysis.keyPoints,
               categories |-> analysis.categories,
               tags |-> analysis.tags,
               sentiment |-> analysis.sentiment,
               aiAnalyzed |-> TRUE,
               aiProcessed |-> TRUE,
               processingStage |-> "comprehensive_ai",
               aiModel |-> config.primary,
               fullAnalysis |-> analysis])

\* an array of n strings
Strs(n) == [k \in 1..n |-> "text"]

\* the detailed analyses a scorer may answer with: any of the fields may be missing
\* and any of the arrays may be one longer than its limit
DeepAnalyses ==
    LET full(h, k, t, c) == [relevanceScore |-> 900, highlights |-> Strs(h),
                             keyPoints |-> Strs(k), tags |-> Strs(t),
                             categories |-> Strs(c)]
    IN { [f \in D |-> full(h, k, t, c)[f]] :
           h \in {0, maxHighlights, maxHighlights + 1},
           k \in {maxKeyPoints, maxKeyPoints + 1},
           t \in {maxTags, maxTags + 1},
           c \in {maxCategories, maxCategories + 1},
           D \in SUBSET {"relevanceScore", "highlights", "keyPoints", "tags",
                         "categories"} }

\* an item as Quick Analysis hands it to the detailed analysis
QuickScoredItem ==
    Spread(Catalog[5],
           [keywordRelevance |-> 1000, keywordMatches |-> <<>>, qualityScore |-> 500,
            interestAlignment |-> 1000, combinedScore |-> 800, quickAiScore |-> 900,
            aiAnalyzed |-> TRUE, aiModel |-> Gemini])

InitDeep ==
    /\ cfg = [primary |-> Gemini, fallback |-> Llama]
    /\ pc = "deep"
    /\ i = 5
    /\ contentBatch = <<>>
    /\ userInterests = IMProgramming
    /\ currentContent = <<QuickScoredItem>>
    /\ totalCost = 0
    /\ stageResults = <<>>
    /\ filterStats = [f \in {filters[n] : n \in 1..Len(filters)} |-> NewFilterStats]
    /\ \E a \in DeepAnalyses, by \in {"FullAIAnalyzer", "ComprehensiveAIAnalyzer"} :
          loc = [analyzer |-> by, analysis |-> a]
    /\ clientStats = [c \in Clients |-> NewClientStats]
    /\ inflight = NoRequest
    /\ result = NoResult
    /\ scorer = IdleScorer
    /\ faults = 0
    /\ calls = <<>>
    /\ chain = <<>>

\* FullAIAnalyzer.analyzeContent lines 107-123 on the scorer's answer
FullAnalyze ==
    /\ pc = "deep"
    /\ loc.analyzer = "FullAIAnalyzer"
    /\ currentContent' =
          <<analyzeContent(currentContent[1],
                           [kind |-> "analysis", analysis |-> loc.analysis], cfg).content>>
    /\ pc' = "analysed"
    /\ UNCHANGED <<cfg, i, contentBatch, userInterests, totalCost, stageResults,
                   filterStats, loc, clientStats, inflight, result, scorer, faults, calls,
                   chain>>

\* ComprehensiveAIAnalyzer.analyzeContent lines 120-154 on the scorer's answer
ComprehensiveAnalyze ==
    /\ pc = "deep"
    /\ loc.analyzer = "ComprehensiveAIAnalyzer"
    /\ currentContent' = <<ComprehensiveEnrich(currentContent[1], loc.analysis, cfg)>>
    /\ pc' = "analysed"
    /\ UNCHANGED <<cfg, i, contentBatch, userInterests, totalCost, stageResults,
                   filterStats, loc, clientStats, inflight, result, scorer, faults, calls,
                   chain>>

NextDeep == FullAnalyze \/ ComprehensiveAnalyze

SpecDeep == InitDeep /\ [][NextDeep]_vars

\* ------------------------------------------- SimpleJobQueueRefactored jobs
\* The job queue of one user.  loc holds the queue's fields (jobs, in insertion
\* order, and the jobId counter), the Content collection as the set of sourceIds
\* that have a record, and what the latest job did; calls is the history of the
\* AIAnalysisService.analyzeContent calls, kept as the number of calls that had
\* each video in their batch.  What the channels list and which videos an analysis
\* finds relevant are the environment's.
Videos == 1..MaxVideos

\* the videos of a set, in the order the channel lists them
RECURSIVE InOrder(_)
InOrder(S) == IF S = {} THEN <<>>
              ELSE LET v == CHOOSE x \in S : \A y \in S : x <= y
                   IN <<v>> \o InOrder(S \ {v})

\* Content.findOne({sourceId, source: 'youtube'}) finds nothing
IsNewVideo(Content, videoId) == videoId \notin Content

\* AIAnalysisService.analyzeContent(batch, ...) is called
AnalyzeCall(history, batch) ==
    [v \in Videos |-> IF v \in batch THEN history[v] + 1 ELSE history[v]]

\* processVideo(videoId, ...) on the collection and history st, when its analysis
\* finds the video relevant or not: an existing record skips the analysis, an
\* irrelevant video leaves no record
processVideo(st, videoId, relevant) ==
    IF ~IsNewVideo(st.Content, videoId) THEN st
    ELSE [Content |-> IF relevant THEN st.Content \cup {videoId} ELSE st.Content,
          calls |-> AnalyzeCall(st.calls, {videoId})]

RECURSIVE ProcessEach(_, _, _)
ProcessEach(st, videoIds, relevantAgain) ==
    IF videoIds = <<>> THEN st
    ELSE ProcessEach(processVideo(st, Head(videoIds), Head(videoIds) \in relevantAgain),
                     Tail(videoIds), relevantAgain)

VideoJob(videoId) == [type |-> "process-video", videoId |-> videoId]

UserJob(type) == [type |-> type, videoId |-> 0]

\* what a job did: its type and the videos it left out for having a record
NoJob == [type |-> "none", skipped |-> {}]

JobDone(type, videos, Content) ==
    [type |-> type, skipped |-> {v \in videos : ~IsNewVideo(Content, v)}]

InitJobs ==
    /\ cfg = [primary |-> Gemini, fallback |-> Llama]
    /\ pc = "queue"
    /\ i = 0
    /\ contentBatch = <<>>
    /\ userInterests = IMEmpty
    /\ currentContent = <<>>
    /\ totalCost = 0
    /\ stageResults = <<>>
    /\ filterStats = [f \in {filters[n] : n \in 1..Len(filters)} |-> NewFilterStats]
    /\ loc = [jobs |-> <<>>, jobId |-> 0, Content |-> {}, last |-> NoJob]
    /\ clientStats = [c \in Clients |-> NewClientStats]
    /\ inflight = NoRequest
    /\ result = NoResult
    /\ scorer = IdleScorer
    /\ faults = 0
    /\ calls = [v \in Videos |-> 0]
    /\ chain = <<>>

JobsFrame == UNCHANGED <<cfg, pc, i, contentBatch, userInterests, currentContent,
                         totalCost, stageResults, filterStats, clientStats, inflight,
                         result, scorer, faults, chain>>

\* addJob('process-user-subscriptions', {userId})
queueUserSubscriptionProcessing ==
    /\ pc = "queue"
    /\ loc.jobId < MaxJobs
    /\ loc' = [loc EXCEPT !.jobs = Append(@, UserJob("process-user-subscriptions")),
                          !.jobId = @ + 1]
    /\ UNCHANGED calls
    /\ JobsFrame

\* addJob('process-todays-content', {userId})
queueTodaysContentProcessing ==
    /\ pc = "queue"
    /\ loc.jobId < MaxJobs
    /\ loc' = [loc EXCEPT !.jobs = Append(@, UserJob("process-todays-content")),
                          !.jobId = @ + 1]
    /\ UNCHANGED calls
    /\ JobsFrame

\* processNextJob on a process-video job
ProcessVideoJob ==
    /\ pc = "queue"
    /\ loc.jobs # <<>>
    /\ Head(loc.jobs).type = "process-video"
    /\ \E relevant \in BOOLEAN :
          LET videoId == Head(loc.jobs).videoId
              st == processVideo([Content |-> loc.Content, calls |-> calls],
                                 videoId, relevant)
          IN /\ loc' = [loc EXCEPT !.jobs = Tail(@), !.Content = st.Content,
                                   !.last = JobDone("process-video", {videoId},
                                                    loc.Content)]
             /\ calls' = st.calls
    /\ JobsFrame

\* processNextJob on a process-user-subscriptions job: the videos without a record
\* are analysed as one batch, and each relevant one is queued for processVideo
ProcessUserSubscriptionsJob ==
    /\ pc = "queue"
    /\ loc.jobs # <<>>
    /\ Head(loc.jobs).type = "process-user-subscriptions"
    /\ \E videos \in SUBSET Videos :
          LET newVideos == {v \in videos : IsNewVideo(loc.Content, v)}
              last == JobDone("process-user-subscriptions", videos, loc.Content)
          IN IF newVideos = {}
             THEN /\ loc' = [loc EXCEPT !.jobs = Tail(@), !.last = last]
                  /\ UNCHANGED calls
             ELSE \E relevant \in SUBSET newVideos :
                    LET queued == InOrder(relevant)
                    IN /\ loc' = [loc EXCEPT
                                    !.jobs = Tail(@) \o
                                             [k \in 1..Len(queued) |-> VideoJob(queued[k])],
                                    !.jobId = @ + Len(queued),
                                    !.last = last]
                       /\ calls' = AnalyzeCall(calls, newVideos)
    /\ JobsFrame

\* processNextJob on a process-todays-content job: today's videos without a record
\* are analysed as one batch, and processVideo is called for each relevant one
ProcessTodaysContentJob ==
    /\ pc = "queue"
    /\ loc.jobs # <<>>
    /\ Head(loc.jobs).type = "process-todays-content"
    /\ \E todaysVideos \in SUBSET Videos :
          LET newVideos == {v \in todaysVideos : IsNewVideo(loc.Content, v)}
              last == JobDone("process-todays-content", todaysVideos, loc.Content)
          IN IF newVideos = {}
             THEN /\ loc' = [loc EXCEPT !.jobs = Tail(@), !.last = last]
                  /\ UNCHANGED calls
             ELSE \E relevant \in SUBSET newVideos :
                  \E relevantAgain \in SUBSET relevant :
                    LET st == ProcessEach(
                                 [Content |-> loc.Content,
                                  calls |-> AnalyzeCall(calls, newVideos)],
                                 InOrder(relevant), relevantAgain)
                    IN /\ loc' = [loc EXCEPT !.jobs = Tail(@),
                                             !.Content = st.Content,
                                             !.last = last]
                       /\ calls' = st.calls
    /\ JobsFrame

NextJobs ==
    \/ queueUserSubscriptionProcessing
    \/ queueTodaysContentProcessing
    \/ ProcessVideoJob
    \/ ProcessUserSubscriptionsJob
    \/ ProcessTodaysContentJob

SpecJobs == InitJobs /\ [][NextJobs]_vars

\* --------------------------------- one OpenRouterService under several runs
\* Several pipeline runs share one client instance (the QuickAIAnalyzer's).  Each
\* run awaits at most one makeRequest attempt at a time; the attempts of different
\* runs interleave at the awaits.  loc.attempt[r] is the attempt run r awaits, or
\* NoRequest; loc.chains counts the makeRequest call chains begun, and calls is the
\* history of how the attempts settled.
Runs == 1..MaxRuns

InitClient ==
    /\ cfg = [primary |-> Gemini, fallback |-> Llama]
    /\ pc = "client"
    /\ i = 0
    /\ contentBatch = <<>>
    /\ userInterests = IMEmpty
    /\ currentContent = <<>>
    /\ totalCost = 0
    /\ stageResults = <<>>
    /\ filterStats = [f \in {filters[n] : n \in 1..Len(filters)} |-> NewFilterStats]
    /\ loc = [attempt |-> [r \in Runs |-> NoRequest], chains |-> 0]
    /\ clientStats = [c \in Clients |-> NewClientStats]
    /\ inflight = NoRequest
    /\ result = NoResult
    /\ scorer = IdleScorer
    /\ faults = 0
    /\ calls = [k \in {"ok", "error", "timeout", "nobody"} |-> 0]
    /\ chain = <<>>

ClientFrame == UNCHANGED <<cfg, pc, i, contentBatch, userInterests, currentContent,
                           totalCost, stageResults, filterStats, inflight, result,
                           scorer, faults, chain>>

\* a run calls makeRequest (lines 29-46): the request is counted and posted
ClientCall ==
    /\ pc = "client"
    /\ loc.chains < MaxChains
    /\ \E r \in Runs :
          /\ loc.attempt[r] = NoRequest
          /\ loc' = [loc EXCEPT !.attempt[r] = [model |-> cfg.primary],
                                !.chains = @ + 1]
    /\ clientStats' = [clientStats EXCEPT !["QuickAIAnalyzer"] = makeRequestStart(@)]
    /\ UNCHANGED calls
    /\ ClientFrame

\* the attempt a run awaits settles (lines 48-69); a retry posts the next attempt
\* in the same step, as the catch block calls makeRequest synchronously up to its
\* await
ClientSettle ==
    /\ pc = "client"
    /\ \E r \in Runs, kind \in {"ok", "error", "timeout", "nobody"} :
          /\ loc.attempt[r] # NoRequest
          /\ LET res == makeRequestResolve(clientStats["QuickAIAnalyzer"], cfg,
                                           loc.attempt[r].model, [kind |-> kind])
             IN /\ calls' = [calls EXCEPT ![kind] = @ + 1]
                /\ IF res.next = "retry"
                   THEN /\ clientStats' = [clientStats EXCEPT !["QuickAIAnalyzer"] =
                                              makeRequestStart(res.stats)]
                        /\ loc' = [loc EXCEPT !.attempt[r] = [model |-> cfg.fallback]]
                   ELSE /\ clientStats' = [clientStats EXCEPT !["QuickAIAnalyzer"] =
                                              res.stats]
                        /\ loc' = [loc EXCEPT !.attempt[r] = NoRequest]
    /\ ClientFrame

NextClient == ClientCall \/ ClientSettle

SpecClient == InitClient /\ [][NextClient]_vars

\* ------------------------------------- SimpleJobQueueRefactored scheduling
\* The queue's own fields while jobs are added, started by the timer and finished
\* by their handlers.  loc holds jobs (the Map, in insertion order), activeJobs (the
\* ids in the Map), jobId, isProcessing and the number of cleanup() calls; calls is
\* the history: the ids in the order they were started, how often each job left
\* the active set, the ids whose handler threw, and the ids of the jobs that a
\* running handler added.
QueueJob(id, type) == [id |-> id, type |-> type]

JobIds == 1..(MaxJobs + 1)

InitQueue ==
    /\ cfg = [primary |-> Gemini, fallback |-> Llama]
    /\ pc = "timer"
    /\ i = 0
    /\ contentBatch = <<>>
    /\ userInterests = IMEmpty
    /\ currentContent = <<>>
    /\ totalCost = 0
    /\ stageResults = <<>>
    /\ filterStats = [f \in {filters[n] : n \in 1..Len(filters)} |-> NewFilterStats]
    /\ loc = [jobs |-> <<>>, activeJobs |-> {}, jobId |-> 0, isProcessing |-> FALSE,
              cleanups |-> 0]
    /\ clientStats = [c \in Clients |-> NewClientStats]
    /\ inflight = NoRequest
    /\ result = NoResult
    /\ scorer = IdleScorer
    /\ faults = 0
    /\ calls = [started |-> <<>>, ended |-> [id \in JobIds |-> 0],
                threw |-> {}, nested |-> {}]
    /\ chain = <<>>

QueueFrame == UNCHANGED <<cfg, pc, i, contentBatch, userInterests, currentContent,
                          totalCost, stageResults, filterStats, clientStats, inflight,
                          result, scorer, faults, chain>>

\* addJob(type, data) / queueVideoProcessing(...): ++this.jobId, this.jobs.set
addJob(queue, type) ==
    [queue EXCEPT !.jobs = Append(@, QueueJob(queue.jobId + 1, type)),
                  !.jobId = @ + 1]

\* a route or the cron service adds a job
AddJob ==
    /\ pc = "timer"
    /\ loc.jobId < MaxJobs
    /\ \E type \in {"process-user-subscriptions", "process-video"} :
          loc' = addJob(loc, type)
    /\ UNCHANGED calls
    /\ QueueFrame

\* the handler of a running process-user-subscriptions job queues a video
\* (processUserSubscriptions line 871)
HandlerAddsJob ==
    /\ pc = "timer"
    /\ loc.jobId < MaxJobs + 1
    /\ \E job \in loc.activeJobs :
          /\ job.type = "process-user-subscriptions"
          /\ loc' = addJob(loc, "process-video")
    /\ calls' = [calls EXCEPT !.nested = @ \cup {loc.jobId + 1}]
    /\ QueueFrame

\* TimerFires, had processNextJob taken the entry added last
TimerFires_TakesLast ==
    /\ pc = "timer"
    /\ ~loc.isProcessing
    /\ Len(loc.jobs) > 0
    /\ loc' = [loc EXCEPT !.isProcessing = TRUE,
                          !.jobs = SubSeq(@, 1, Len(@) - 1),
                          !.activeJobs = @ \cup {loc.jobs[Len(loc.jobs)]}]
    /\ calls' = [calls EXCEPT !.started = Append(@, loc.jobs[Len(loc.jobs)].id)]
    /\ QueueFrame

\* the interval fires (lines 501-505) and processNextJob runs up to its await
\* (lines 509-519): the first job of the Map becomes the active one
TimerFires ==
    /\ pc = "timer"
    /\ ~loc.isProcessing
    /\ Len(loc.jobs) > 0
    /\ loc' = [loc EXCEPT !.isProcessing = TRUE,
                          !.jobs = Tail(@),
                          !.activeJobs = @ \cup {Head(loc.jobs)}]
    /\ calls' = [calls EXCEPT !.started = Append(@, Head(loc.jobs).id)]
    /\ QueueFrame

\* JobSettles, had the catch block left out line 545 (isProcessing stays set after
\* a handler threw)
JobSettles_ThrowBlocks(job, thrown) ==
    /\ pc = "timer"
    /\ job \in loc.activeJobs
    /\ loc' = [loc EXCEPT !.activeJobs = @ \ {job},
                          !.isProcessing = IF thrown THEN @ ELSE FALSE]
    /\ calls' = [calls EXCEPT !.ended[job.id] = @ + 1,
                              !.threw = IF thrown THEN @ \cup {job.id} ELSE @]
    /\ QueueFrame

\* processNextJob after its await, for the job whose handler settled: lines 537-538
\* when it returned, the catch block (lines 540-543) when it threw, then line 545
JobSettles(job, thrown) ==
    /\ pc = "timer"
    /\ job \in loc.activeJobs
    /\ loc' = [loc EXCEPT !.activeJobs = @ \ {job}, !.isProcessing = FALSE]
    /\ calls' = [calls EXCEPT !.ended[job.id] = @ + 1,
                              !.threw = IF thrown THEN @ \cup {job.id} ELSE @]
    /\ QueueFrame

HandlerReturns == \E job \in loc.activeJobs : JobSettles(job, FALSE)

HandlerThrows == \E job \in loc.activeJobs : JobSettles(job, TRUE)

\* cleanup() (lines 1188-1192)
Cleanup ==
    /\ pc = "timer"
    /\ loc.cleanups < MaxCleanups
    /\ loc' = [loc EXCEPT !.isProcessing = FALSE, !.cleanups = @ + 1]
    /\ UNCHANGED calls
    /\ QueueFrame

NextQueue ==
    \/ AddJob
    \/ HandlerAddsJob
    \/ TimerFires
    \/ HandlerReturns
    \/ HandlerThrows
    \/ Cleanup

SpecQueue == InitQueue /\ [][NextQueue]_vars

\* the timer keeps firing and every handler eventually returns or throws
SpecQueueFair ==
    /\ SpecQueue
    /\ WF_vars(TimerFires)
    /\ \A id \in JobIds :
          WF_vars(\E job \in loc.activeJobs :
                     /\ job.id = id
                     /\ (JobSettles(job, FALSE) \/ JobSettles(job, TRUE)))

\* --------------------------------------- processVideo's UserContent entries
\* The UserContent collection for one content record while video-processing jobs
\* create the entries of their target users.  Job 1 has a list of one to MaxTargets
\* user ids (a user may occur twice), job 2 one user id; targetUsers.map starts
\* one async callback per list entry, and the callbacks of a job, and those of two
\* jobs that run together, interleave at their awaits.  loc.tasks are the
\* callbacks (where each is: "find", "user", "save", "done"), loc.UserContent the
\* number of records per user id; calls is the history: the user ids for which a
\* callback looked for a record while another one for the same user, having found
\* none, had not finished.
TargetUsers == 1..2

RECURSIVE ListsOf(_, _)
ListsOf(S, n) ==
    IF n = 0 THEN {<<>>}
    ELSE {Append(l, x) : l \in ListsOf(S, n - 1), x \in S}

TargetLists == UNION {ListsOf(TargetUsers, n) : n \in 1..MaxTargets}

CallbacksOf(job, targetUsers) ==
    [k \in 1..Len(targetUsers) |-> [job |-> job, userId |-> targetUsers[k],
                                    at |-> "find"]]

InitUserContent ==
    /\ cfg = [primary |-> Gemini, fallback |-> Llama]
    /\ pc = "entries"
    /\ i = 0
    /\ contentBatch = <<>>
    /\ userInterests = IMEmpty
    /\ currentContent = <<>>
    /\ totalCost = 0
    /\ stageResults = <<>>
    /\ filterStats = [f \in {filters[n] : n \in 1..Len(filters)} |-> NewFilterStats]
    /\ \E first \in TargetLists, second \in ListsOf(TargetUsers, 1) :
          loc = [tasks |-> CallbacksOf(1, first) \o CallbacksOf(2, second),
                 UserContent |-> [u \in TargetUsers |-> 0]]
    /\ clientStats = [c \in Clients |-> NewClientStats]
    /\ inflight = NoRequest
    /\ result = NoResult
    /\ scorer = IdleScorer
    /\ faults = 0
    /\ calls = [overlapped |-> {}]
    /\ chain = <<>>

UserContentFrame ==
    UNCHANGED <<cfg, pc, i, contentBatch, userInterests, currentContent, totalCost,
                stageResults, filterStats, clientStats, inflight, result, scorer,
                faults, chain>>

\* UserContent.findOne({userId, contentId}) resolves (lines 727-734): an existing
\* record ends the callback
FindExisting ==
    /\ pc = "entries"
    /\ \E t \in 1..Len(loc.tasks) :
          /\ loc.tasks[t].at = "find"
          /\ LET userId == loc.tasks[t].userId
                 others == {o \in 1..Len(loc.tasks) :
                              /\ o # t
                              /\ loc.tasks[o].userId = userId
                              /\ loc.tasks[o].at \in {"user", "save"}}
             IN IF loc.UserContent[userId] > 0
                THEN /\ loc' = [loc EXCEPT !.tasks[t].at = "done"]
                     /\ UNCHANGED calls
                ELSE /\ loc' = [loc EXCEPT !.tasks[t].at = "user"]
                     /\ calls' = [calls EXCEPT !.overlapped =
                                     IF others # {} THEN @ \cup {userId} ELSE @]
    /\ UserContentFrame

\* User.findById resolves (lines 736-737) and the relevance is compared with the
\* threshold (lines 739-744): a relevant content is saved (line 755)
LoadUser ==
    /\ pc = "entries"
    /\ \E t \in 1..Len(loc.tasks), relevant \in BOOLEAN :
          /\ loc.tasks[t].at = "user"
          /\ loc' = [loc EXCEPT !.tasks[t].at = IF relevant THEN "save" ELSE "done"]
    /\ UNCHANGED calls
    /\ UserContentFrame

\* userContent.save() resolves (line 755): the record is in the collection, which
\* has no unique index on (userId, contentId)
SaveUserContent ==
    /\ pc = "entries"
    /\ \E t \in 1..Len(loc.tasks) :
          /\ loc.tasks[t].at = "save"
          /\ loc' = [loc EXCEPT !.tasks[t].at = "done",
                                !.UserContent[loc.tasks[t].userId] = @ + 1]
    /\ UNCHANGED calls
    /\ UserContentFrame

NextUserContent == FindExisting \/ LoadUser \/ SaveUserContent

SpecUserContent == InitUserContent /\ [][NextUserContent]_vars

\* ------------------------------------------------------------------ claims
Range(seq) == {seq[k] : k \in 1..Len(seq)}

IdsOf(seq) == {seq[k].id : k \in 1..Len(seq)}

RECURSIVE SumFn(_)
SumFn(f) == IF DOMAIN f = {} THEN 0
            ELSE LET k == CHOOSE x \in DOMAIN f : TRUE
                 IN f[k] + SumFn([x \in DOMAIN f \ {k} |-> f[x]])

LastCall == calls[Len(calls)]

Resolved(call) == call.settled /\ "output" \in DOMAIN call

Threw(call) == call.settled /\ "error" \in DOMAIN call

\* C1: the stages of a run are called in the fixed order Basic Filter, Keyword
\* Filter, Quality Scorer, Quick Analysis, Deep Analysis; a stage is called only
\* after the one before it has resolved, and with exactly the list that one returned
\* (the first stage with the caller's batch).
C1_StagesInOrder ==
    /\ Len(calls) <= Len(filters)
    /\ \A k \in 1..Len(calls) : calls[k].name = filters[k]
    /\ Len(calls) >= 1 => calls[1].input = contentBatch
    /\ \A k \in 1..(Len(calls) - 1) :
          /\ Resolved(calls[k])
          /\ calls[k + 1].input = calls[k].output

\* a run went through all five stages, each changing the list it was given
C1_Witness ==
    /\ pc = "done"
    /\ Len(calls) = Len(filters)
    /\ calls[1].output # calls[1].input
    /\ calls[2].output # calls[2].input
    /\ calls[4].output # calls[4].input

C3_EmptyShortCircuits ==
    \A k \in 1..Len(calls) :
        (Resolved(calls[k]) /\ calls[k].output = <<>>) =>
            /\ k = Len(calls)
            /\ pc \in {"final", "done"}
            /\ inflight = NoRequest
            /\ "error" \notin DOMAIN stageResults[calls[k].name]
            /\ stageResults[calls[k].name].outputCount = 0
            /\ currentContent = <<>>
            /\ pc = "done" => result.analyzedContent = <<>>

\* the Keyword Filter dropped everything the Basic Filter had let through
C3_Witness ==
    /\ pc = "done"
    /\ Len(calls) = 2
    /\ Resolved(calls[2])
    /\ calls[2].input # <<>>
    /\ calls[2].output = <<>>

\* the raw item of the caller's batch that carries `id`
Original(id) == CHOOSE c \in Range(contentBatch) : c.id = id

\* C4: every item a scoring request is issued for passed the Basic Filter and the
\* Keyword Filter and is in the output of every stage that resolved earlier in the
\* run; a Deep Analysis request is for an item of the run's Quick Analysis output.
C4_NoRequestForDropped ==
    inflight # NoRequest =>
        \A item \in Range(inflight.subject) :
            /\ item.id \in IdsOf(contentBatch)
            /\ passesBasicFilter(Original(item.id))
            /\ "keywordRelevance" \in DOMAIN item
            /\ item.keywordRelevance >= minTitleRelevance
            /\ \A k \in 1..(Len(calls) - 1) :
                  Resolved(calls[k]) /\ item.id \in IdsOf(calls[k].output)
            /\ inflight.client = "FullAIAnalyzer" =>
                  /\ Len(calls) = 5
                  /\ calls[4].name = "QuickAIAnalyzer"
                  /\ item \in Range(calls[4].output)

\* a Deep Analysis request is in flight in a run whose early stages dropped items
C4_Witness ==
    /\ inflight # NoRequest
    /\ inflight.client = "FullAIAnalyzer"
    /\ Len(calls[1].output) < Len(calls[1].input)
    /\ Len(calls[2].output) < Len(calls[2].input)
    /\ Len(loc.topCandidates) < Len(calls[4].output)

\* the best-available score as the specification words it: the first of
\* finalRelevanceScore, quickAiScore, combinedScore that is set, otherwise 0
BestAvailable(item) ==
    IF "finalRelevanceScore" \in DOMAIN item THEN item.finalRelevanceScore
    ELSE IF "quickAiScore" \in DOMAIN item THEN item.quickAiScore
    ELSE IF "combinedScore" \in DOMAIN item THEN item.combinedScore
    ELSE 0

BreakdownKey(name) == UnderscoreCapitals(ToLower(name))

\* C6: in every finished run, also one that short-circuited or halted on an error,
\* the total cost of the result is the sum of the costs in its breakdown, and the
\* breakdown has one entry for each stage that ran.
C6_TotalIsSumOfBreakdown ==
    pc = "done" =>
        /\ result.cost.total = SumFn(result.cost.breakdown)
        /\ DOMAIN result.cost.breakdown = {BreakdownKey(calls[k].name) : k \in 1..Len(calls)}
        /\ Cardinality(DOMAIN result.cost.breakdown) = Len(calls)
        /\ \A k \in 1..Len(calls) :
              result.cost.breakdown[BreakdownKey(calls[k].name)] =
                  IF Resolved(calls[k])
                  THEN stageResults[calls[k].name].cost
                  ELSE 0

\* both AI stages ran and cost something
C6_Witness ==
    /\ pc = "done"
    /\ Len(calls) = 5
    /\ result.cost.breakdown.quickaianalyzer > 0
    /\ result.cost.breakdown.fullaianalyzer > 0
    /\ result.cost.total > result.cost.breakdown.fullaianalyzer

\* the attempts of the last call chain ended in an error the stage had to catch:
\* makeRequest threw, or it returned a body the stage could not use
LastChainUnusable ==
    /\ chain # <<>>
    /\ LET last == chain[Len(chain)]
       IN \/ last.next = "throw"
          \/ /\ last.next = "return"
             /\ \/ last.payload.kind \in {"unparsable", "notobject"}
                \/ /\ last.payload.kind = "scores"
                   /\ pc = "quick"
                   /\ Len(last.payload.scores) #
                         Len(QuickBatch(currentContent, loc.pos - batchSize))

\* C7: whatever the scoring client does (request error, timeout, missing or
\* unparsable body, scores array of the wrong length), the stage that issued the
\* request turns it into fallback items for the items of that request; no scoring
\* stage is ever recorded as failed, and the finished run carries a result.
C7_ClientErrorsBecomeFallbacks ==
    /\ \A k \in 1..Len(calls) : calls[k].name \in Clients => ~Threw(calls[k])
    /\ \A c \in Clients \cap DOMAIN stageResults : "error" \notin DOMAIN stageResults[c]
    /\ (pc = "quick" /\ LastChainUnusable) =>
          LET batch == QuickBatch(currentContent, loc.pos - batchSize)
              from == Len(loc.results) - Len(batch)
          IN /\ from >= 0
             /\ \A n \in 1..Len(batch) :
                   /\ loc.results[from + n].id = batch[n].id
                   /\ loc.results[from + n].aiAnalyzed = FALSE
                   /\ loc.results[from + n].fallback = TRUE
                   /\ loc.results[from + n].quickAiScore = batch[n].combinedScore
    /\ (pc = "full" /\ LastChainUnusable) =>
          LET candidate == loc.topCandidates[loc.k - 1]
              pushed == loc.results[Len(loc.results)]
          IN /\ pushed.id = candidate.id
             /\ pushed.aiProcessed = FALSE
             /\ pushed.processingStage = "quick_ai_only"
             /\ pushed.finalRelevanceScore = candidate.quickAiScore
    /\ pc = "done" =>
          /\ result # NoResult
          /\ result.pipelineStats.originalCount = Len(contentBatch)
          /\ result.pipelineStats.finalCount = Len(result.analyzedContent)

\* a finished run returned an item of a quick batch that fell back and an item whose
\* deep analysis fell back
C7_Witness ==
    /\ pc = "done"
    /\ Len(calls) = Len(filters)
    /\ faults >= 1
    /\ \E n \in 1..Len(result.analyzedContent) :
          /\ "fallback" \in DOMAIN result.analyzedContent[n]
          /\ result.analyzedContent[n].fallback = TRUE
    /\ \E n \in 1..Len(result.analyzedContent) :
          /\ "processingStage" \in DOMAIN result.analyzedContent[n]
          /\ result.analyzedContent[n].processingStage = "quick_ai_only"

\* C8: with a scoring client that always throws, Quick Analysis resolves with one
\* output item per input item, in order, each with aiAnalyzed = FALSE; no scoring
\* stage is recorded as failed and the finished run carries a result.
C8_OutageFallsBack ==
    /\ \A c \in Clients : clientStats[c].successfulRequests = 0
    /\ \A k \in 1..Len(calls) :
          /\ calls[k].name \in Clients => ~Threw(calls[k])
          /\ (calls[k].name = "QuickAIAnalyzer" /\ calls[k].settled) =>
                /\ Resolved(calls[k])
                /\ Len(calls[k].output) = Len(calls[k].input)
                /\ \A n \in 1..Len(calls[k].output) :
                      /\ calls[k].output[n].id = calls[k].input[n].id
                      /\ calls[k].output[n].aiAnalyzed = FALSE
    /\ pc = "done" =>
          /\ result # NoResult
          /\ result.pipelineStats.originalCount = Len(contentBatch)

\* a run finished after Quick Analysis lost both of its batches, four items in all
C8_Witness ==
    /\ pc = "done"
    /\ Len(calls) = Len(filters)
    /\ Len(calls[4].input) = 4
    /\ clientStats["QuickAIAnalyzer"].totalRequests = 4
    /\ clientStats["QuickAIAnalyzer"].failedRequests = 4
    /\ Len(result.analyzedContent) >= 1

\* C9: a call chain starts on the primary model; a failed primary attempt (an error,
\* a timeout, a missing body) is followed by exactly one attempt on the fallback
\* model; a failed fallback attempt throws and the calling stage sees that error; no
\* chain has more than two attempts; a successful primary attempt ends the chain.
C9_FallbackOnce ==
    /\ Len(chain) <= 2
    /\ (pc = "await" /\ chain = <<>>) => inflight.model = cfg.primary
    /\ Len(chain) >= 1 =>
          /\ chain[1].model = cfg.primary
          /\ IF chain[1].kind = "ok"
             THEN /\ chain[1].next = "return"
                  /\ Len(chain) = 1
                  /\ inflight = NoRequest
             ELSE /\ chain[1].next = "retry"
                  /\ Len(chain) = 1 => (pc = "await" /\ inflight.model = cfg.fallback)
    /\ Len(chain) = 2 =>
          /\ chain[2].model = cfg.fallback
          /\ chain[2].next = IF chain[2].kind = "ok" THEN "return" ELSE "throw"
          /\ inflight = NoRequest
          /\ (chain[2].next = "throw" /\ pc = "quick") =>
                loc.results[Len(loc.results)].error = chain[2].kind
          /\ (chain[2].next = "throw" /\ pc = "full") =>
                loc.results[Len(loc.results)].error = chain[2].kind

\* the primary attempt timed out and the fallback attempt failed too
C9_Witness ==
    /\ Len(chain) = 2
    /\ chain[1].kind = "timeout"
    /\ chain[2].kind = "error"
    /\ chain[2].next = "throw"
    /\ pc = "quick"

\* C10: with a primary model that always fails and a fallback model that answers,
\* every quick batch is served by the fallback attempt: Quick Analysis resolves with
\* every item aiAnalyzed = TRUE and none marked fallback, and the client has counted
\* at least one failed and at least one successful request.
C10_FailoverServesQuick ==
    /\ (pc = "quick" /\ chain # <<>>) =>
          /\ Len(chain) = 2
          /\ chain[1].kind # "ok"
          /\ chain[2].model = cfg.fallback
          /\ chain[2].kind = "ok"
    /\ \A k \in 1..Len(calls) :
          (calls[k].name = "QuickAIAnalyzer" /\ calls[k].settled) =>
              /\ Resolved(calls[k])
              /\ Len(calls[k].output) = Len(calls[k].input)
              /\ \A n \in 1..Len(calls[k].output) :
                    /\ calls[k].output[n].id = calls[k].input[n].id
                    /\ calls[k].output[n].aiAnalyzed = TRUE
                    /\ "fallback" \notin DOMAIN calls[k].output[n]
              /\ clientStats["QuickAIAnalyzer"].failedRequests >= 1
              /\ clientStats["QuickAIAnalyzer"].successfulRequests >= 1

\* Quick Analysis resolved for a batch of three items
C10_Witness ==
    /\ Len(calls) >= 4
    /\ Resolved(calls[4])
    /\ Len(calls[4].input) = 3
    /\ clientStats["QuickAIAnalyzer"].totalRequests = 2
    /\ calls[4].output[3].aiAnalyzed = TRUE

\* the call chain `ch` returned a scores array that does not have `n` entries
WrongLength(ch, n) ==
    /\ ch # <<>>
    /\ ch[Len(ch)].next = "return"
    /\ ch[Len(ch)].payload.kind = "scores"
    /\ Len(ch[Len(ch)].payload.scores) # n

\* C11: when the scores array returned for a quick batch has the wrong length, the
\* loop pushes, after the results it already holds and without touching them, one
\* fallback item per item of that batch (quickAiScore = its combinedScore,
\* aiAnalyzed = FALSE, fallback = TRUE), moves on to the next batch, and leaves the
\* stage only when every batch has been attempted.
C11_WrongLengthFailsBatchOnly ==
    [][/\ (pc = "await" /\ pc' = "quick"
             /\ WrongLength(chain', Len(inflight.subject))) =>
             LET batch == inflight.subject
                 had == Len(loc.results)
             IN /\ loc'.pos = loc.pos + batchSize
                /\ Len(loc'.results) = had + Len(batch)
                /\ SubSeq(loc'.results, 1, had) = loc.results
                /\ \A n \in 1..Len(batch) :
                      /\ loc'.results[had + n].id = batch[n].id
                      /\ loc'.results[had + n].quickAiScore = batch[n].combinedScore
                      /\ loc'.results[had + n].aiAnalyzed = FALSE
                      /\ loc'.results[had + n].fallback = TRUE
                      /\ \A f \in DOMAIN batch[n] \ {"quickAiScore"} :
                            loc'.results[had + n][f] = batch[n][f]
                /\ currentContent' = currentContent
                /\ stageResults' = stageResults
       /\ (pc = "quick" /\ pc' \notin {"quick", "await"}) =>
             /\ loc.pos >= Len(currentContent)
             /\ Len(loc.results) = Len(currentContent)
             /\ currentContent' = loc.results]_vars

\* Quick Analysis resolved for four items: the first batch of three fell back on a
\* scores array of the wrong length, the second batch was scored
C11_Witness ==
    /\ Len(calls) >= 4
    /\ Resolved(calls[4])
    /\ Len(calls[4].output) = 4
    /\ "fallback" \in DOMAIN calls[4].output[1]
    /\ calls[4].output[1].error = "scores"
    /\ calls[4].output[3].error = "scores"
    /\ calls[4].output[4].aiAnalyzed = TRUE

\* the attempts `client` has posted that have not settled yet (an attempt answered
\* without a body is counted as successful and as failed)
Unsettled(client) ==
    clientStats[client].totalRequests -
        (clientStats[client].successfulRequests + clientStats[client].failedRequests)

\* C12: a request is in flight only while the stage that issued it is suspended on
\* it, so at most one at a time; the request in flight is the one for the next
\* batch (next candidate) and the results of all batches (candidates) before it are
\* already in; each client has at most one attempt that has not settled.
C12_OneRequestAtATime ==
    /\ (inflight # NoRequest) <=> (pc = "await")
    /\ \A c \in Clients :
          Unsettled(c) <= IF pc = "await" /\ inflight.client = c THEN 1 ELSE 0
    /\ (pc = "await" /\ inflight.client = "QuickAIAnalyzer") =>
          /\ LastCall.name = "QuickAIAnalyzer" /\ ~LastCall.settled
          /\ inflight.subject = QuickBatch(currentContent, loc.pos)
          /\ Len(loc.results) = loc.pos
    /\ pc = "quick" => Len(loc.results) = Min(loc.pos, Len(currentContent))
    /\ (pc = "await" /\ inflight.client = "FullAIAnalyzer") =>
          /\ LastCall.name = "FullAIAnalyzer" /\ ~LastCall.settled
          /\ inflight.subject = <<loc.topCandidates[loc.k]>>
          /\ Len(loc.results) = loc.k - 1
    /\ pc = "full" => Len(loc.results) = loc.k - 1

\* the request for the second deep candidate is in flight, after two quick batches
C12_Witness ==
    /\ pc = "await"
    /\ inflight.client = "FullAIAnalyzer"
    /\ loc.k = 2
    /\ clientStats["QuickAIAnalyzer"].totalRequests >= 2
    /\ Len(currentContent) = 4

\* the score an item had before Deep Analysis: quickAiScore if set, otherwise
\* combinedScore if set, otherwise 0
PriorScore(item) ==
    IF "quickAiScore" \in DOMAIN item THEN item.quickAiScore
    ELSE IF "combinedScore" \in DOMAIN item THEN item.combinedScore
    ELSE 0

\* C13: the candidates selected for Deep Analysis are distinct items of its input, at
\* most maxFullAnalysis of them, each with a prior score of at least
\* fullAnalysisThreshold, as many as the cap and the threshold allow, and no item
\* left out that meets the threshold scores strictly higher than a selected one.
C13_TopCandidates ==
    "topCandidates" \in DOMAIN loc =>
        LET sel == loc.topCandidates
            eligible == {c \in Range(currentContent) :
                            PriorScore(c) >= fullAnalysisThreshold}
        IN /\ Len(sel) <= maxFullAnalysis
           /\ Range(sel) \subseteq eligible
           /\ Cardinality(Range(sel)) = Len(sel)
           /\ Len(sel) = Min(maxFullAnalysis, Cardinality(eligible))
           /\ \A c \in eligible \ Range(sel) :
                 \A n \in 1..Len(sel) : PriorScore(c) <= PriorScore(sel[n])

\* eleven items meet the threshold, some at it and some above: ten are selected
C13_Witness ==
    /\ pc = "select"
    /\ Len(currentContent) = 11
    /\ \A n \in 1..11 : PriorScore(currentContent[n]) >= fullAnalysisThreshold
    /\ PriorScore(currentContent[1]) = fullAnalysisThreshold
    /\ PriorScore(currentContent[11]) = 900
    /\ Len(loc.topCandidates) = maxFullAnalysis
    /\ PriorScore(loc.topCandidates[maxFullAnalysis]) = fullAnalysisThreshold

\* `o` is `c` with a processing-stage tag and nothing else added or changed
TaggedOnly(c, o) ==
    /\ "processingStage" \in DOMAIN o
    /\ DOMAIN o = DOMAIN c \cup {"processingStage"}
    /\ \A f \in DOMAIN c \ {"processingStage"} : o[f] = c[f]

\* C14: Deep Analysis returns as many items as it was given, and every item of its
\* input that was not selected is in its output exactly once, the same but for a
\* processing-stage tag.
C14_UnselectedPassThrough ==
    \A k \in 1..Len(calls) :
        (calls[k].name = "FullAIAnalyzer" /\ Resolved(calls[k])) =>
            LET selected == IdsOf(selectTopCandidates(calls[k].input))
                out == calls[k].output
            IN /\ Len(out) = Len(calls[k].input)
               /\ \A c \in Range(calls[k].input) :
                     c.id \notin selected =>
                         /\ Cardinality({n \in 1..Len(out) : out[n].id = c.id}) = 1
                         /\ \A n \in 1..Len(out) :
                               out[n].id = c.id => TaggedOnly(c, out[n])

\* what the code does for the items it does not select: each is returned once, with
\* its fields kept; when candidates were selected it also carries the tag, its prior
\* score as finalRelevanceScore and aiProcessed; when none was selected it is returned
\* as it came, without a tag
C14_UnselectedAsReturned ==
    \A k \in 1..Len(calls) :
        (calls[k].name = "FullAIAnalyzer" /\ Resolved(calls[k])) =>
            LET selected == IdsOf(selectTopCandidates(calls[k].input))
                out == calls[k].output
            IN /\ Len(out) = Len(calls[k].input)
               /\ selected = {} => out = calls[k].input
               /\ \A c \in Range(calls[k].input) :
                     (c.id \notin selected /\ selected # {}) =>
                         /\ Cardinality({n \in 1..Len(out) : out[n].id = c.id}) = 1
                         /\ \A n \in 1..Len(out) :
                               out[n].id = c.id =>
                                   /\ DOMAIN out[n] = DOMAIN c \cup
                                         {"processingStage", "finalRelevanceScore",
                                          "aiProcessed"}
                                   /\ \A f \in DOMAIN c : out[n][f] = c[f]
                                   /\ out[n].finalRelevanceScore = PriorScore(c)
                                   /\ out[n].aiProcessed = c.aiAnalyzed
                                   /\ out[n].processingStage =
                                         IF c.aiAnalyzed THEN "quick_ai"
                                         ELSE "keyword_filtered"

\* Deep Analysis resolved without selecting anything and returned untagged items
C14_Witness ==
    /\ Len(calls) = 5
    /\ Resolved(calls[5])
    /\ selectTopCandidates(calls[5].input) = <<>>
    /\ \E n \in 1..Len(calls[5].output) :
          "processingStage" \notin DOMAIN calls[5].output[n]

\* the call chain `ch` did not give Deep Analysis an analysis it could use
DeepFailed(ch) ==
    /\ ch # <<>>
    /\ \/ ch[Len(ch)].next = "throw"
       \/ ch[Len(ch)].payload.kind \in {"unparsable", "notobject"}

\* C15: when the deep analysis of a selected item fails, the loop pushes that item
\* with its prior score as finalRelevanceScore, aiProcessed = FALSE and the error
\* (in place of an error a quick fallback left), every other field kept, and goes on to the next candidate; the stage returns only
\* when every candidate has been attempted, and every candidate is in its output.
C15_DeepFailureKeepsItem ==
    [][/\ (pc = "await" /\ pc' = "full" /\ DeepFailed(chain')) =>
             LET candidate == loc.topCandidates[loc.k]
                 pushed == loc'.results[Len(loc'.results)]
             IN /\ loc'.results = Append(loc.results, pushed)
                /\ pushed.id = candidate.id
                /\ pushed.finalRelevanceScore = PriorScore(candidate)
                /\ pushed.aiProcessed = FALSE
                /\ "error" \in DOMAIN pushed
                /\ \A f \in DOMAIN candidate \ {"error"} : pushed[f] = candidate[f]
                /\ loc'.k = loc.k + 1
                /\ loc'.topCandidates = loc.topCandidates
       /\ (pc = "full" /\ pc' \notin {"full", "await"}) =>
             /\ loc.k = Len(loc.topCandidates) + 1
             /\ IdsOf(loc.results) = IdsOf(loc.topCandidates)
             /\ Range(loc.results) \subseteq Range(currentContent')
             /\ "error" \notin DOMAIN stageResults'["FullAIAnalyzer"]]_vars

\* Deep Analysis resolved with two candidates: the first one failed and kept its
\* prior score, the second one was analysed after it
C15_Witness ==
    /\ Len(calls) = 5
    /\ Resolved(calls[5])
    /\ \E n, m \in 1..Len(calls[5].output) :
          /\ "error" \in DOMAIN calls[5].output[n]
          /\ "processingStage" \in DOMAIN calls[5].output[n]
          /\ "processingStage" \in DOMAIN calls[5].output[m]
          /\ calls[5].output[n].aiProcessed = FALSE
          /\ calls[5].output[n].processingStage = "quick_ai_only"
          /\ calls[5].output[n].finalRelevanceScore = PriorScore(calls[5].output[n])
          /\ calls[5].output[m].processingStage = "full_ai"
          /\ PriorScore(calls[5].output[n]) > PriorScore(calls[5].output[m])

\* the processing-stage tags the specification enumerates
StageTags == {"comprehensive_ai", "quick_ai", "full_ai", "keyword_filtered",
              "fallback", "error", "filtered_out"}

\* Quick Analysis / Deep Analysis was called in this run
StageRan(name) == \E k \in 1..Len(calls) : calls[k].name = name

\* C16: every item of the ranked list a finished run returns carries a
\* processing-stage tag from the enumerated set, and the tag agrees with what ran on
\* the item: comprehensive_ai only after a completed deep analysis, quick_ai or
\* full_ai only after a quick score and no deep analysis, keyword_filtered only if
\* Quick Analysis never ran, fallback or error only with an attached error.
C16_TagSetAndConsistent ==
    pc = "done" =>
        \A n \in 1..Len(result.analyzedContent) :
            LET item == result.analyzedContent[n]
            IN /\ "processingStage" \in DOMAIN item
               /\ item.processingStage \in StageTags
               /\ item.processingStage = "comprehensive_ai" =>
                     "fullAnalysis" \in DOMAIN item
               /\ item.processingStage \in {"quick_ai", "full_ai"} =>
                     /\ "aiAnalyzed" \in DOMAIN item /\ item.aiAnalyzed
                     /\ "fullAnalysis" \notin DOMAIN item
               /\ item.processingStage = "keyword_filtered" =>
                     ~StageRan("QuickAIAnalyzer")
               /\ item.processingStage \in {"fallback", "error"} =>
                     "error" \in DOMAIN item

\* what the code does: an item of the ranked list is tagged only if Deep Analysis
\* selected candidates in its run, and then with full_ai (deep analysis completed),
\* quick_ai_only (deep analysis failed), quick_ai (scored by Quick Analysis, not
\* selected) or keyword_filtered (quick fallback, not selected)
C16_TagsAsWritten ==
    pc = "done" =>
        \A n \in 1..Len(result.analyzedContent) :
            LET item == result.analyzedContent[n]
                deepSelected == /\ Len(calls) = 5
                                /\ selectTopCandidates(calls[5].input) # <<>>
            IN /\ ("processingStage" \in DOMAIN item) <=> deepSelected
               /\ deepSelected =>
                     /\ item.processingStage \in
                           {"full_ai", "quick_ai_only", "quick_ai", "keyword_filtered"}
                     /\ item.processingStage = "full_ai" <=>
                           "fullAnalysis" \in DOMAIN item
                     /\ item.processingStage = "quick_ai_only" <=>
                           (item.aiProcessed = FALSE /\ "error" \in DOMAIN item
                              /\ item.id \in IdsOf(selectTopCandidates(calls[5].input)))
                     /\ item.processingStage = "keyword_filtered" =>
                           (item.aiAnalyzed = FALSE /\ "fallback" \in DOMAIN item)

\* a finished run returned an item whose deep analysis completed, tagged full_ai,
\* next to one whose deep analysis failed, tagged quick_ai_only
C16_Witness ==
    /\ pc = "done"
    /\ \E n, m \in 1..Len(result.analyzedContent) :
          /\ "fullAnalysis" \in DOMAIN result.analyzedContent[n]
          /\ result.analyzedContent[n].processingStage = "full_ai"
          /\ "processingStage" \in DOMAIN result.analyzedContent[m]
          /\ result.analyzedContent[m].processingStage = "quick_ai_only"

\* C17: when no item entering Deep Analysis has a prior score of at least
\* fullAnalysisThreshold, the stage selects nothing, its client never posts a request,
\* it returns its input as it is, and the deep-analysis entry of the cost breakdown
\* of the result is 0.
C17_NoCandidateNoCost ==
    (/\ Len(calls) = 5
     /\ \A c \in Range(calls[5].input) : PriorScore(c) < fullAnalysisThreshold) =>
        /\ pc \in {"final", "done"}
        /\ inflight = NoRequest
        /\ clientStats["FullAIAnalyzer"].totalRequests = 0
        /\ Resolved(calls[5])
        /\ calls[5].output = calls[5].input
        /\ stageResults["FullAIAnalyzer"].metadata.candidatesSelected = 0
        /\ stageResults["FullAIAnalyzer"].cost = 0
        /\ pc = "done" =>
              /\ result.cost.breakdown[BreakdownKey("FullAIAnalyzer")] = 0
              /\ result.cost.total = result.cost.breakdown[BreakdownKey("QuickAIAnalyzer")]

\* a finished run on a paid model: Quick Analysis cost something, two items
\* reached Deep Analysis, both below the threshold, and one was returned
C17_Witness ==
    /\ pc = "done"
    /\ Len(calls) = 5
    /\ Len(calls[5].input) >= 2
    /\ \A c \in Range(calls[5].input) : PriorScore(c) < fullAnalysisThreshold
    /\ result.cost.total > 0
    /\ Len(result.analyzedContent) >= 1

\* the ids of a list, in order
IdSeq(seq) == [n \in 1..Len(seq) |-> seq[n].id]

\* C18: no stage returns more items than it was given, and every item it returns is
\* one it was given; the Basic Filter returns a sub-list of its input, the Keyword
\* Filter the items of a sub-list of its input, each in input order.
C18_MonotonicNarrowing ==
    \A k \in 1..Len(calls) :
        Resolved(calls[k]) =>
            LET in == calls[k].input
                out == calls[k].output
                kept(id) == id \in IdsOf(out)
            IN /\ Len(out) <= Len(in)
               /\ IdsOf(out) \subseteq IdsOf(in)
               /\ Cardinality(IdsOf(out)) = Len(out)
               /\ k = 1 => Range(out) \subseteq Range(in)
               /\ k \in {1, 2} => IdSeq(out) = SelectSeq(IdSeq(in), kept)
               /\ k \in {3, 4, 5} => Len(out) = Len(in)

\* all five stages resolved: the two filters each dropped an item and Deep Analysis
\* returned its selected and its unselected items
C18_Witness ==
    /\ Len(calls) = 5
    /\ Resolved(calls[5])
    /\ Len(calls[1].output) < Len(calls[1].input)
    /\ Len(calls[2].output) < Len(calls[2].input)
    /\ Len(calls[5].input) >= 2
    /\ Len(selectTopCandidates(calls[5].input)) \in 1..(Len(calls[5].input) - 1)

\* the items the run holds: the current list, the results a scoring stage has
\* pushed so far, and the ranked list of the result
ItemsHeld ==
    Range(currentContent)
        \cup (IF "results" \in DOMAIN loc THEN Range(loc.results) ELSE {})
        \cup (IF pc = "done" THEN Range(result.analyzedContent) ELSE {})

\* every field of `fields` that `item` has set lies between 0 and 1
InUnitRange(item, fields) ==
    \A f \in fields \cap DOMAIN item : item[f] >= 0 /\ item[f] <= ScoreOne

\* C19: every score field that is set on an item lies in [0, 1], whatever the
\* external scorer answers.
C19_ScoresInUnitRange ==
    \A item \in ItemsHeld :
        InUnitRange(item, {"keywordRelevance", "qualityScore", "interestAlignment",
                           "combinedScore", "quickScore", "quickAiScore",
                           "finalRelevanceScore"})

\* what the code guarantees: the scores computed locally lie in [0, 1] (for
\* the priorities of the modelled interest models, all between 1 and 10)
C19_LocalScoresInUnitRange ==
    \A item \in ItemsHeld :
        InUnitRange(item, {"keywordRelevance", "qualityScore", "interestAlignment",
                           "combinedScore"})

\* a finished run returned an item whose quick score and final score are the 1.2
\* the scorer answered
C19_Witness ==
    /\ pc = "done"
    /\ \E item \in Range(result.analyzedContent) :
          /\ item.quickAiScore > ScoreOne
          /\ item.finalRelevanceScore = item.quickAiScore
          /\ item.aiAnalyzed = TRUE

\* the weight of one listed match: its priority times 0.1 for an interest name, 0.05
\* for a keyword, 0.08 for a subcategory name and 0.03 for a subcategory keyword
MatchWeight(m) ==
    m.priority * (CASE m.type = "main_interest" -> 100
                    [] m.type = "keyword" -> 50
                    [] m.type = "subcategory" -> 80
                    [] m.type = "subcategory_keyword" -> 30)

\* the priority-weighted sum over the listed matches of an item
WeightedSum(matches) == SumSeq([n \in 1..Len(matches) |-> MatchWeight(matches[n])])

\* C20: an item with fewer matches than keywordMatchThreshold has keyword relevance 0,
\* however large the weighted sum of its matches, and the Keyword Filter drops it; an
\* item with at least that many matches has the weighted sum capped at 1, and the
\* Keyword Filter returns it with that value exactly when it reaches minTitleRelevance.
C20_MatchThresholdGate ==
    \A k \in 1..Len(calls) :
        (calls[k].name = "KeywordRelevanceFilter" /\ Resolved(calls[k])) =>
            \A c \in Range(calls[k].input) :
                LET matches == getKeywordMatches(c, userInterests)
                    relevance == calculateKeywordRelevance(c, userInterests)
                    kept == {o \in Range(calls[k].output) : o.id = c.id}
                IN /\ Len(matches) < keywordMatchThreshold =>
                        relevance = 0 /\ kept = {}
                   /\ Len(matches) >= keywordMatchThreshold =>
                        /\ relevance = Min(WeightedSum(matches), ScoreOne)
                        /\ kept # {} <=> relevance >= minTitleRelevance
                   /\ \A o \in kept : /\ o.keywordRelevance = relevance
                                      /\ o.keywordMatches = matches

\* the Keyword Filter was given an item with one match whose weighted sum alone
\* reaches minTitleRelevance, and dropped it, and kept an item with two matches
C20_Witness ==
    \E k \in 1..Len(calls) :
        /\ calls[k].name = "KeywordRelevanceFilter"
        /\ Resolved(calls[k])
        /\ \E c \in Range(calls[k].input) :
              /\ Len(getKeywordMatches(c, userInterests)) = keywordMatchThreshold - 1
              /\ WeightedSum(getKeywordMatches(c, userInterests)) >= minTitleRelevance
              /\ c.id \notin IdsOf(calls[k].output)
        /\ \E o \in Range(calls[k].output) :
              /\ Len(o.keywordMatches) >= keywordMatchThreshold
              /\ o.keywordRelevance = Min(WeightedSum(o.keywordMatches), ScoreOne)

\* the title holds a quality-indicator or professional-domain term
QualityTitle(c) == \E t \in qualityIndicators \cup professionalDomains : TitleIncludes(c, t)

\* the duration rule as the specification words it: no duration, or one within
\* [minDurationSeconds, maxDurationSeconds]
DurationRuleMet(c) ==
    "duration" \in DOMAIN c =>
        /\ c.duration.kind = "iso"
        /\ parseDuration(c.duration) >= minDurationSeconds
        /\ parseDuration(c.duration) <= maxDurationSeconds

\* the item the Basic Filter was called with, once it has returned
BasicFiltered(c) ==
    /\ pc = "filtered"
    /\ calls[1].input = <<c>>

\* C21: an item with no description, a title of at least minTitleLength characters
\* that holds a quality-indicator or professional-domain term and no irrelevant
\* keyword, and a duration that meets the duration rule, passes the Basic Filter.
C21_AbsentDescriptionPasses ==
    \A c \in RawItems :
        ( /\ BasicFiltered(c)
          /\ "descLen" \notin DOMAIN c
          /\ QualityTitle(c)
          /\ c.titleLen >= minTitleLength
          /\ \A k \in irrelevantKeywords : ~TitleIncludes(c, k)
          /\ DurationRuleMet(c) )
        => calls[1].output = <<c>>

\* C21, as the code behaves: an item with no description, or with the empty one, is
\* dropped by the Basic Filter whatever its title.
C21_AbsentDescriptionDropped ==
    \A c \in RawItems :
        (BasicFiltered(c) /\ ("descLen" \notin DOMAIN c \/ c.descLen = 0))
        => /\ calls[1].output = <<>>
           /\ filterStats["BasicContentFilter"].filtered = 1

\* the Basic Filter has returned from an item with no description, a long enough
\* title holding a quality-indicator term, and no duration
C21_Witness ==
    \E c \in RawItems :
        /\ BasicFiltered(c)
        /\ "descLen" \notin DOMAIN c
        /\ QualityTitle(c)
        /\ c.titleLen >= minTitleLength
        /\ "duration" \notin DOMAIN c

\* the item without its duration field
WithoutDuration(c) == [f \in DOMAIN c \ {"duration"} |-> c[f]]

\* the duration is absent, or is not a string the duration pattern matches
DurationUnknown(c) == "duration" \in DOMAIN c => c.duration.kind # "iso"

\* C22: the Basic Filter drops an item because of its duration only if the duration
\* parses and lies outside [minDurationSeconds, maxDurationSeconds]: an item whose
\* duration is absent or cannot be parsed, and which passes without a duration, passes.
C22_UnknownDurationNeverDrops ==
    \A c \in RawItems :
        ( /\ BasicFiltered(c)
          /\ passesBasicFilter(WithoutDuration(c))
          /\ calls[1].output = <<>> )
        => /\ ~DurationUnknown(c)
           /\ \/ parseDuration(c.duration) < minDurationSeconds
              \/ parseDuration(c.duration) > maxDurationSeconds

\* C22, as the code behaves: an item that passes without a duration passes with one
\* exactly when parseDuration puts it within the range, and parseDuration is 0 for a
\* duration it cannot parse; an item with no duration is not dropped for it.
C22_DurationAsParsed ==
    \A c \in RawItems :
        (BasicFiltered(c) /\ passesBasicFilter(WithoutDuration(c)))
        => /\ "duration" \notin DOMAIN c => calls[1].output = <<c>>
           /\ "duration" \in DOMAIN c =>
                /\ c.duration.kind # "iso" => parseDuration(c.duration) = 0
                /\ calls[1].output = <<c>> <=>
                      /\ parseDuration(c.duration) >= minDurationSeconds
                      /\ parseDuration(c.duration) <= maxDurationSeconds

\* the Basic Filter has returned from an item whose duration is a string that does
\* not parse and which passes every other rule
C22_Witness ==
    \E c \in RawItems :
        /\ BasicFiltered(c)
        /\ "duration" \in DOMAIN c
        /\ c.duration.kind = "text"
        /\ passesBasicFilter(WithoutDuration(c))

\* the item of a list with a given id
ItemOf(seq, id) == CHOOSE c \in Range(seq) : c.id = id

\* every field of before is in after, with the same value
Extends(after, before) ==
    /\ DOMAIN before \subseteq DOMAIN after
    /\ \A f \in DOMAIN before : after[f] = before[f]

\* C23: the Quality Scorer returns exactly the items it was given, each with its
\* fields kept and qualityScore, interestAlignment and combinedScore added, in
\* non-increasing order of combinedScore.
C23_QualityKeepsAndSorts ==
    \A k \in 1..Len(calls) :
        (calls[k].name = "QualityScorer" /\ calls[k].settled) =>
            LET in == calls[k].input
                out == calls[k].output
            IN /\ Resolved(calls[k])
               /\ Len(out) = Len(in)
               /\ IdsOf(out) = IdsOf(in)
               /\ Cardinality(IdsOf(out)) = Len(out)
               /\ \A o \in Range(out) :
                     /\ Extends(o, ItemOf(in, o.id))
                     /\ {"qualityScore", "interestAlignment", "combinedScore"}
                           \subseteq DOMAIN o
               /\ \A n \in 1..(Len(out) - 1) :
                     out[n].combinedScore >= out[n + 1].combinedScore

\* the Quality Scorer returned three or more items in an order other than the one
\* it was given them in, with at least two different combined scores
C23_Witness ==
    \E k \in 1..Len(calls) :
        /\ calls[k].name = "QualityScorer"
        /\ Resolved(calls[k])
        /\ Len(calls[k].output) >= 3
        /\ IdSeq(calls[k].output) # IdSeq(calls[k].input)
        /\ calls[k].output[1].combinedScore
              > calls[k].output[Len(calls[k].output)].combinedScore

\* the score fields the stages set, in the order they are set
ScoreFields == {"keywordRelevance", "qualityScore", "interestAlignment", "combinedScore",
                "quickAiScore", "finalRelevanceScore"}

\* C24: every field an item carries when it enters a stage is still present when the
\* item leaves it, in the stage's output and in the ranked list of the finished run,
\* and every score set by an earlier stage still has the value that stage gave it.
C24_FieldsOnlyAdded ==
    /\ \A k \in 1..Len(calls) :
          Resolved(calls[k]) =>
              \A o \in Range(calls[k].output) :
                  LET before == ItemOf(calls[k].input, o.id)
                  IN /\ DOMAIN before \subseteq DOMAIN o
                     /\ \A f \in ScoreFields \cap DOMAIN before : o[f] = before[f]
    /\ pc = "done" =>
          \A o \in Range(result.analyzedContent) :
              LET before == ItemOf(contentBatch, o.id)
              IN DOMAIN before \subseteq DOMAIN o

\* a finished run in which Quick Analysis fell back for an item and Deep Analysis
\* fell back for one and passed another through unselected
C24_Witness ==
    /\ pc = "done"
    /\ Len(calls) = 5
    /\ Resolved(calls[5])
    /\ \E o \in Range(calls[4].output) : "fallback" \in DOMAIN o
    /\ \E o \in Range(calls[5].output) :
          "processingStage" \in DOMAIN o /\ o.processingStage = "quick_ai_only"
    /\ \E o \in Range(calls[5].output) :
          "processingStage" \in DOMAIN o /\ o.processingStage \in {"quick_ai", "keyword_filtered"}

\* the interests a normalizer was given hold a category that is null
HasNullCategory(input) ==
    LET nullIn(raw) == /\ "object" \in DOMAIN raw
                       /\ \E k \in 1..Len(raw.object) : "isNull" \in DOMAIN raw.object[k].value
    IN IF loc.normalizer = "PUT /interests" /\ "again" \notin DOMAIN loc
       THEN nullIn(input)
       ELSE IF "again" \in DOMAIN loc THEN FALSE
            ELSE \E u \in 1..Len(input) :
                    "interests" \in DOMAIN input[u] /\ nullIn(input[u].interests)

\* a priority that is a number within [1, 10]
InRange(v) == IsNum(v) /\ v.number >= 1 /\ v.number <= 10

\* the one category the normalizer was given, when it was given just one by one user
OnlyCategory ==
    LET raw == IF loc.normalizer = "PUT /interests" THEN loc.input
               ELSE IF Len(loc.input) = 1 /\ "interests" \in DOMAIN loc.input[1]
                    THEN loc.input[1].interests
                    ELSE [array |-> <<>>]
    IN IF "object" \in DOMAIN raw /\ Len(raw.object) = 1 /\ ~HasNullCategory(loc.input)
       THEN raw.object[1].value ELSE NoEntry

\* C25: a normalizer given categories whose priority is absent, no number or out of
\* range does not fail, and every category of the model it produces has a priority
\* that is a number within [1, 10]: 5 where the supplied one was absent or no number.
C25_PriorityClamped ==
    pc = "normalized" =>
        /\ ~HasNullCategory(loc.input) => ~userInterests.threw
        /\ ~userInterests.threw =>
             /\ \A k \in 1..Len(userInterests.value) :
                   InRange(userInterests.value[k].value.priority)
             /\ (/\ OnlyCategory # NoEntry
                 /\ \/ "priority" \notin DOMAIN OnlyCategory
                    \/ ~IsNum(OnlyCategory.priority))
                => userInterests.value[1].value.priority = Num(5)

\* C25, as the code behaves: the handler of PUT /interests never fails and gives a
\* category with no priority 5 and one with a numeric priority that priority brought
\* into [1, 10] (0 becomes 5); a priority that is no number becomes NaN.
C25_PutInterestsClampsNumbers ==
    (pc = "normalized" /\ loc.normalizer = "PUT /interests") =>
        /\ ~userInterests.threw
        /\ OnlyCategory # NoEntry =>
             LET given == OnlyCategory
                 got == userInterests.value[1].value.priority
             IN /\ "priority" \notin DOMAIN given => got = Num(5)
                /\ ("priority" \in DOMAIN given /\ IsNum(given.priority)) =>
                     /\ InRange(got)
                     /\ InRange(given.priority) => got = given.priority
                     /\ given.priority.number > 10 => got = Num(10)
                     /\ given.priority.number < 0 => got = Num(1)
                     /\ given.priority.number = 0 => got = Num(5)
                /\ ("priority" \in DOMAIN given /\ ~IsNum(given.priority)) => got = NaN

\* the handler of PUT /interests has normalized one category whose priority is 15
C25_Witness ==
    /\ pc = "normalized"
    /\ loc.normalizer = "PUT /interests"
    /\ OnlyCategory # NoEntry
    /\ "priority" \in DOMAIN OnlyCategory
    /\ OnlyCategory.priority = Num(15)
    /\ userInterests.value[1].value.priority = Num(10)

\* a normalizer was given one category map by one caller
OneModelGiven ==
    \/ "again" \in DOMAIN loc
    \/ loc.normalizer = "PUT /interests" /\ "object" \in DOMAIN loc.input
    \/ /\ loc.normalizer # "PUT /interests"
       /\ Len(loc.input) = 1
       /\ "interests" \in DOMAIN loc.input[1]
       /\ "object" \in DOMAIN loc.input[1].interests

\* that category map
ModelGiven ==
    IF "again" \in DOMAIN loc THEN loc.input
    ELSE IF loc.normalizer = "PUT /interests" THEN loc.input.object
         ELSE loc.input[1].interests.object

\* an InterestModel: every category has a priority within [1, 10], a list of
\* keywords and a map of subcategories
IsInterestModel(obj) ==
    \A k \in 1..Len(obj) :
        /\ {"priority", "keywords", "subcategories"} \subseteq DOMAIN obj[k].value
        /\ InRange(obj[k].value.priority)

\* C26: normalization is idempotent: a normalizer given the model it produced
\* returns a structure identical to it.
C26_NormalizeTwice ==
    pc = "renormalized" =>
        /\ ~userInterests.threw
        /\ userInterests.value = loc.input

\* C26, as the code behaves: a normalizer given an InterestModel (one it produced, or
\* one supplied in that shape) does not fail and returns a structure identical to it.
C26_NormalizeIdempotent ==
    (/\ pc \in {"normalized", "renormalized"}
     /\ OneModelGiven
     /\ IsInterestModel(ModelGiven))
    => /\ ~userInterests.threw
       /\ userInterests.value = ModelGiven

\* a normalizer was given again the model it had produced, with a category of
\* priority other than 5 that has keywords and a subcategory, and with two categories
C26_Witness ==
    /\ pc = "renormalized"
    /\ IsInterestModel(loc.input)
    /\ Len(loc.input) = 2
    /\ \E k \in 1..Len(loc.input) :
          /\ loc.input[k].value.priority # Num(5)
          /\ loc.input[k].value.keywords # <<>>
          /\ loc.input[k].value.subcategories # <<>>
    /\ userInterests.value = loc.input

\* a normalizer was given one legacy list of names by one caller
OneListGiven ==
    /\ "again" \notin DOMAIN loc
    /\ \/ loc.normalizer = "PUT /interests" /\ "array" \in DOMAIN loc.input
       \/ /\ loc.normalizer # "PUT /interests"
          /\ Len(loc.input) = 1
          /\ "interests" \in DOMAIN loc.input[1]
          /\ "array" \in DOMAIN loc.input[1].interests

\* the names of that list: PUT /interests trims them and skips the blank ones
ListGiven ==
    IF loc.normalizer = "PUT /interests"
    THEN {Trim(loc.input.array[k]) : k \in 1..Len(loc.input.array)} \ {""}
    ELSE {loc.input[1].interests.array[k] : k \in 1..Len(loc.input[1].interests.array)}

\* the normalized model has one entry for each of the names, and no other
OneEntryPerName(obj, names) ==
    /\ {obj[k].name : k \in 1..Len(obj)} = names
    /\ Len(obj) = Cardinality(names)

\* C27: a legacy list of names is normalized to a mapping with one entry per listed
\* name, each exactly {priority: 5, keywords: [], subcategories: {}}.
C27_LegacyListNormalized ==
    (pc = "normalized" /\ OneListGiven) =>
        /\ ~userInterests.threw
        /\ OneEntryPerName(userInterests.value, ListGiven)
        /\ \A k \in 1..Len(userInterests.value) :
              userInterests.value[k].value
                = [priority |-> Num(5), keywords |-> <<>>, subcategories |-> <<>>]

\* C27, as the code behaves: the mapping has one entry per listed name, each with
\* priority 5 and no keywords; PUT /interests and SimpleJobQueue give each entry an
\* empty subcategories map, SimpleJobQueueRefactored gives it no subcategories field.
C27_LegacyListAsCoded ==
    (pc = "normalized" /\ OneListGiven) =>
        /\ ~userInterests.threw
        /\ OneEntryPerName(userInterests.value, ListGiven)
        /\ \A k \in 1..Len(userInterests.value) :
              userInterests.value[k].value
                = IF loc.normalizer = "SimpleJobQueueRefactored"
                  THEN [priority |-> Num(5), keywords |-> <<>>]
                  ELSE [priority |-> Num(5), keywords |-> <<>>, subcategories |-> <<>>]

\* SimpleJobQueueRefactored has normalized a legacy list of two names
C27_Witness ==
    /\ pc = "normalized"
    /\ OneListGiven
    /\ loc.normalizer = "SimpleJobQueueRefactored"
    /\ Cardinality(ListGiven) = 2
    /\ Len(userInterests.value) = 2

\* the positions in the history of batchProcess at which it called makeRequest
RequestAt == {p \in 1..Len(calls) : calls[p].event = "request"}

\* what C28 holds of batchProcess apart from the delays: one request at a time, the
\* n-th call is for the n-th request of the list, and the list returned has one
\* success or failure entry per request, in list order
BatchSequentialAndComplete ==
    /\ pc = "awaiting" <=> inflight # NoRequest
    /\ \A p \in RequestAt :
          calls[p].index = Cardinality({q \in RequestAt : q < p})
    /\ Len(loc.results) = loc.i + (IF pc = "delaying" THEN 1 ELSE 0)
    /\ Cardinality(RequestAt) = loc.i + (IF pc \in {"awaiting", "delaying"} THEN 1 ELSE 0)
    /\ pc = "returned" =>
          /\ Len(result) = loc.requests
          /\ \A k \in 1..Len(result) :
                result[k].index = k - 1 /\ "success" \in DOMAIN result[k]

\* C28: batchProcess issues its requests one at a time in list order, waits the
\* configured delay between every two successive calls, whether the earlier of the
\* two succeeded or failed, and returns one success or failure entry per request.
C28_DelayBetweenCalls ==
    /\ BatchSequentialAndComplete
    /\ loc.delayMs > 0 =>
          \A p \in RequestAt :
              p > 1 => calls[p - 1] = [event |-> "delay", ms |-> loc.delayMs]

\* C28, as the code behaves: batchProcess waits the delay before a call exactly when
\* the call before it succeeded; after a call that failed the next one follows at once.
C28_DelayAfterSuccessOnly ==
    /\ BatchSequentialAndComplete
    /\ \A p \in RequestAt :
          p > 1 =>
            LET earlier == loc.results[calls[p].index]
            IN IF earlier.success /\ loc.delayMs > 0
               THEN calls[p - 1] = [event |-> "delay", ms |-> loc.delayMs]
               ELSE calls[p - 1].event = "request"

\* batchProcess returned from three requests with a delay of 1000 ms: the first
\* succeeded, the second failed, the third succeeded
C28_Witness ==
    /\ pc = "returned"
    /\ loc.delayMs = 1000
    /\ Len(result) = 3
    /\ result[1].success /\ ~result[2].success /\ result[3].success
    /\ Len(calls) = 4

\* the arrays of a detailed analysis and their limits
ArrayLimits == [highlights |-> maxHighlights, keyPoints |-> maxKeyPoints,
                tags |-> maxTags, categories |-> maxCategories]

\* C29: a deeply analysed item has at most 5 highlights, 10 key points, 15 tags and
\* 3 categories, and each of these arrays that the scorer's answer lacks is present
\* on the item as an empty array.
C29_ArraysClamped ==
    pc = "analysed" =>
        \A f \in DOMAIN ArrayLimits :
            /\ f \in DOMAIN currentContent[1]
            /\ Len(currentContent[1][f]) <= ArrayLimits[f]
            /\ f \notin DOMAIN loc.analysis => currentContent[1][f] = <<>>

\* C29, as the code behaves: FullAIAnalyzer, the analyzer of the pipeline, copies
\* highlights, key points and categories as the scorer gave them, whatever their
\* length, and sets no tags; ComprehensiveAIAnalyzer cuts the four arrays to their
\* limits.  Both make missing highlights and key points empty and missing
\* categories ['General'].
C29_ArraysAsCoded ==
    pc = "analysed" =>
        LET o == currentContent[1]
            given(f, d) == IF f \in DOMAIN loc.analysis THEN loc.analysis[f] ELSE d
        IN IF loc.analyzer = "FullAIAnalyzer"
           THEN /\ o.highlights = given("highlights", <<>>)
                /\ o.keyPoints = given("keyPoints", <<>>)
                /\ o.categories = given("categories", <<"General">>)
                /\ "tags" \notin DOMAIN o
                /\ o.processingStage = "full_ai"
           ELSE /\ \A f \in DOMAIN ArrayLimits :
                      Len(o[f]) = Min(Len(given(f, <<>>)), ArrayLimits[f])
                      \/ (f = "categories" /\ f \notin DOMAIN loc.analysis)
                /\ o.keyPoints = Slice(given("keyPoints", <<>>), maxKeyPoints)
                /\ o.tags = Slice(given("tags", <<>>), maxTags)
                /\ o.categories = Slice(given("categories", <<"General">>), maxCategories)

\* FullAIAnalyzer has analysed an item from an answer with six highlights and no
\* key points
C29_Witness ==
    /\ pc = "analysed"
    /\ loc.analyzer = "FullAIAnalyzer"
    /\ "highlights" \in DOMAIN loc.analysis
    /\ Len(loc.analysis.highlights) = maxHighlights + 1
    /\ "keyPoints" \notin DOMAIN loc.analysis
    /\ currentContent[1].processingStage = "full_ai"

\* how many analyzeContent calls had the video in their batch
TimesAnalyzed(history, videoId) == history[videoId]

\* C30: across any sequence of subscription-processing, today's-content and
\* video-processing jobs, the analysis pipeline is run at most once for any given
\* video: a video that has been analysed is never analysed again.
C30_AnalyzedAtMostOnce ==
    pc = "queue" => \A v \in Videos : TimesAnalyzed(calls, v) <= 1

\* C30, as the code behaves: the jobs skip a video only when it has a Content
\* record, so a video with a record is never analysed again, while a video without
\* one (analysed in a batch and not yet processed, or found irrelevant) is.
C30_RecordedNeverReanalyzed ==
    [][pc = "queue" =>
          \A v \in loc.Content : TimesAnalyzed(calls', v) = TimesAnalyzed(calls, v)]_vars

\* a today's-content job has met a video that already had a record and left it out
\* of its batch, after that video had been analysed by the batch of an earlier job
\* and again by processVideo
C30_Witness ==
    /\ pc = "queue"
    /\ loc.last.type = "process-todays-content"
    /\ \E v \in loc.last.skipped :
          /\ v \in loc.Content
          /\ TimesAnalyzed(calls, v) = 2

\* the run was given one item only, and its title is shorter than the minimum
OneShortTitle ==
    /\ Len(contentBatch) = 1
    /\ contentBatch[1].titleLen < minTitleLength

\* C31: for an input whose only item has a title shorter than the minimum, the Basic
\* Filter drops the item, no later stage runs, the returned list is empty, and the
\* result's stage summary has the field basicFiltered, as the result of the
\* pre-refactoring service has, with the value 0.
C31_ShortTitleSummary ==
    (pc = "done" /\ OneShortTitle) =>
        /\ Len(calls) = 1
        /\ calls[1].name = "BasicContentFilter"
        /\ Resolved(calls[1])
        /\ calls[1].output = <<>>
        /\ result.analyzedContent = <<>>
        /\ "basicFiltered" \in DOMAIN result.stages
        /\ result.stages.basicFiltered = 0

\* C31, as the code behaves: the item is dropped, nothing else runs and the list is
\* empty, but the summary's only field is named after the filter class,
\* basiccontentfilterCount; it holds the 0.
C31_ShortTitleAsCoded ==
    (pc = "done" /\ OneShortTitle) =>
        /\ Len(calls) = 1
        /\ calls[1].name = "BasicContentFilter"
        /\ Resolved(calls[1])
        /\ calls[1].output = <<>>
        /\ result.analyzedContent = <<>>
        /\ DOMAIN result.stages = {"basiccontentfilterCount"}
        /\ result.stages.basiccontentfilterCount = 0

\* a run on the one item with a five-character title has finished
C31_Witness ==
    /\ pc = "done"
    /\ OneShortTitle
    /\ contentBatch[1].titleLen = 5
    /\ result.analyzedContent = <<>>

\* the shared client's counters, and the attempts still awaited
SharedStats == clientStats["QuickAIAnalyzer"]

Awaited == Cardinality({r \in Runs : loc.attempt[r] # NoRequest})

\* C32: whenever no request is in flight, the client's counters satisfy
\* totalRequests = successfulRequests + failedRequests, every attempt having been
\* counted once in totalRequests and in exactly one of the other two, also when
\* several runs interleave on the client and when a response comes without a body.
C32_CountersAddUp ==
    (pc = "client" /\ Awaited = 0) =>
        SharedStats.totalRequests
            = SharedStats.successfulRequests + SharedStats.failedRequests

\* C32, as the code behaves: every attempt is counted once in totalRequests, every
\* settled attempt that was rejected or timed out once in failedRequests, every
\* answered one once in successfulRequests, and a response without a body in both;
\* interleaved runs do not disturb the counts.
C32_CountersAsCoded ==
    pc = "client" =>
        /\ SharedStats.totalRequests
              = calls.ok + calls.error + calls.timeout + calls.nobody + Awaited
        /\ SharedStats.successfulRequests = calls.ok + calls.nobody
        /\ SharedStats.failedRequests = calls.error + calls.timeout + calls.nobody

\* two runs have interleaved on the client, one answered and one given a response
\* without a body on both of its attempts, and nothing is in flight
C32_Witness ==
    /\ pc = "client"
    /\ Awaited = 0
    /\ calls.nobody = 2
    /\ calls.ok = 1
    /\ SharedStats.totalRequests = 3
    /\ SharedStats.successfulRequests = 3
    /\ SharedStats.failedRequests = 2

\* C33: the in-memory job queue runs at most one job at a time: at most one job is
\* in the active set, and processNextJob is never started while another job's
\* handler is still awaiting, also after cleanup() was called while a job ran.
C33_OneJobAtATime ==
    pc = "timer" => Cardinality(loc.activeJobs) <= 1

\* C33, as the code behaves: the isProcessing flag keeps the jobs apart until
\* cleanup() clears it under a running job; each such call lets one more job run
\* beside the others.
C33_OneJobUntilCleanup ==
    pc = "timer" =>
        /\ Cardinality(loc.activeJobs) <= 1 + loc.cleanups
        /\ loc.cleanups = 0 => (loc.isProcessing <=> loc.activeJobs # {})

\* cleanup() was called while a job ran, and the timer has started a second one
C33_Witness ==
    /\ pc = "timer"
    /\ loc.cleanups = 1
    /\ Cardinality(loc.activeJobs) = 2
    /\ Len(calls.started) = 2
    /\ \A id \in JobIds : calls.ended[id] = 0

\* a sequence of numbers that grows strictly
Increasing(seq) == \A k, l \in 1..Len(seq) : k < l => seq[k] < seq[l]

QueuedIds == [k \in 1..Len(loc.jobs) |-> loc.jobs[k].id]

\* C34: the in-memory job queue is FIFO with unique ids: the ids grow strictly in
\* the order the jobs were added, and no job is started before a job that was added
\* earlier, the jobs added by a running job's handler included.
C34_FifoUniqueIds ==
    pc = "timer" =>
        /\ Increasing(calls.started \o QueuedIds)
        /\ \A id \in Range(calls.started \o QueuedIds) : id <= loc.jobId
        /\ Cardinality(Range(calls.started \o QueuedIds)) = loc.jobId
        /\ \A job \in loc.activeJobs : job.id \in Range(calls.started)

\* three jobs were started in the order they were added, the last of them added by
\* the handler of the first while the second was waiting
C34_Witness ==
    /\ pc = "timer"
    /\ calls.started = <<1, 2, 3>>
    /\ calls.nested = {3}
    /\ calls.ended[1] = 1

\* the job with this id has been started and has left both Maps for good
RanToEnd(id) ==
    /\ calls.ended[id] = 1
    /\ id \notin Range(QueuedIds)
    /\ \A job \in loc.activeJobs : job.id # id

\* C35: if every handler eventually returns or throws and the timer keeps firing,
\* every job that was added is eventually started and then removed from the queued
\* and the active set, exactly once; a handler that throws puts isProcessing back to
\* false and the jobs after it still run.
C35_EveryJobRunsOnce ==
    /\ \A id \in JobIds : (loc.jobId >= id) ~> RanToEnd(id)
    /\ [](\A id \in JobIds :
            /\ calls.ended[id] <= 1
            /\ Cardinality({k \in 1..Len(calls.started) : calls.started[k] = id}) <= 1
            /\ calls.ended[id] = 1 => RanToEnd(id))
    /\ [][\A id \in JobIds :
            (id \in calls.threw' /\ id \notin calls.threw) => ~loc.isProcessing']_vars

\* the handler of the first job threw, and the second job has run to its end
C35_Witness ==
    /\ pc = "timer"
    /\ calls.threw = {1}
    /\ calls.started = <<1, 2>>
    /\ RanToEnd(1)
    /\ RanToEnd(2)
    /\ ~loc.isProcessing

\* C36: at most one UserContent record ever exists for a (user, content) pair, also
\* when the same user id occurs twice in a job's target list or when two
\* video-processing jobs for the same video run together.
C36_OneRecordPerPair ==
    pc = "entries" => \A u \in TargetUsers : loc.UserContent[u] <= 1

\* C36, as the code behaves: a callback adds no record when its findOne finds one,
\* so a pair gets a second record only when two callbacks for the same user
\* overlap between the findOne of one and the save of the other.
C36_OneRecordUnlessOverlapped ==
    pc = "entries" =>
        \A u \in TargetUsers : u \notin calls.overlapped => loc.UserContent[u] <= 1

\* the target list of job 1 named one user twice, and both callbacks saved a record
C36_Witness ==
    /\ pc = "entries"
    /\ Len(loc.tasks) = 3
    /\ loc.tasks[1].userId = loc.tasks[2].userId
    /\ loc.tasks[1].at = "done"
    /\ loc.tasks[2].at = "done"
    /\ loc.tasks[3].at = "find"
    /\ loc.tasks[3].userId # loc.tasks[1].userId
    /\ loc.UserContent[loc.tasks[1].userId] = 2

\* the calls of the run that resolved, by position in the call log
ResolvedCalls == {k \in 1..Len(calls) : Resolved(calls[k])}

\* how many items of a list satisfy a test
HowMany(seq, Test(_)) == Cardinality({k \in 1..Len(seq) : Test(seq[k])})

\* C37: for each stage that completes in a run, the inputCount recorded for the
\* stage is the number of items that were passed into the stage, also when some
\* Quick or Deep batches or items fell back.
C37_InputCountIsInput ==
    \A k \in ResolvedCalls :
        stageResults[calls[k].name].inputCount = Len(calls[k].input)

\* C37, as the code behaves: inputCount is the filter's stats.processed.  The three
\* local stages assign it the length of their input; Quick Analysis adds to it the
\* sizes of the batches that were scored, and Deep Analysis counts the candidates
\* that were analysed, so on a fresh pipeline the two record the number of items
\* the scorer answered for, not the number passed in.
C37_InputCountAsCoded ==
    \A k \in ResolvedCalls :
        LET name == calls[k].name
            recorded == stageResults[name].inputCount
        IN CASE name = "QuickAIAnalyzer" ->
                  recorded = HowMany(calls[k].output,
                                     LAMBDA c : "aiAnalyzed" \in DOMAIN c /\ c.aiAnalyzed)
             [] name = "FullAIAnalyzer" ->
                  recorded = HowMany(calls[k].output,
                                     LAMBDA c : /\ "processingStage" \in DOMAIN c
                                                /\ c.processingStage = "full_ai")
             [] OTHER -> recorded = Len(calls[k].input)

\* a run has finished in which Quick Analysis was passed four items and its second
\* batch fell back, and Deep Analysis was passed the four and analysed one
C37_Witness ==
    /\ pc = "done"
    /\ Len(calls) = 5
    /\ Len(calls[4].input) = 4
    /\ stageResults["QuickAIAnalyzer"].inputCount = 3
    /\ Len(calls[5].input) = 4
    /\ stageResults["FullAIAnalyzer"].inputCount = 1

\* the matchCount that calculateKeywordRelevance compares with the threshold
MatchCounter(content, interests) ==
    LET names == InterestNames(interests)
    IN SumSeq([n \in 1..Len(names) |->
                 InterestScore(content, names[n],
                               InterestData(interests, names[n])).matchCount])

\* C38: for every item that survives the Keyword Filter, the number of entries of
\* its itemized match list is the match counter that was compared with the
\* minimum-matches threshold when its keywordRelevance was computed, so that every
\* survivor lists at least keywordMatchThreshold matches.
C38_MatchListIsMatchCount ==
    \A k \in 1..Len(calls) :
        (calls[k].name = "KeywordRelevanceFilter" /\ Resolved(calls[k])) =>
            \A o \in Range(calls[k].output) :
                \E c \in Range(calls[k].input) :
                    /\ c.id = o.id
                    /\ Len(o.keywordMatches) = MatchCounter(c, userInterests)
                    /\ Len(o.keywordMatches) >= keywordMatchThreshold

\* the Keyword Filter kept an item whose list holds matches of an interest name, of
\* a keyword and of a subcategory keyword
C38_Witness ==
    \E k \in 1..Len(calls) :
        /\ calls[k].name = "KeywordRelevanceFilter"
        /\ Resolved(calls[k])
        /\ \E o \in Range(calls[k].output) :
              {"main_interest", "keyword", "subcategory_keyword"}
                  \subseteq {o.keywordMatches[m].type : m \in 1..Len(o.keywordMatches)}

\* the Quick Analysis calls of the run that resolved
QuickResolved ==
    {k \in 1..Len(calls) : calls[k].name = "QuickAIAnalyzer" /\ Resolved(calls[k])}

\* the item was in a batch that the scorer answered with one score per item
Scored(o) == "aiAnalyzed" \in DOMAIN o /\ o.aiAnalyzed

\* C39: when a Quick Analysis batch succeeds, each item's quickAiScore is the score
\* the scorer returned at the item's position in the batch, for every returned value
\* in [0,1], 0 included, and the output keeps the items in input order.
C39_QuickScoreAsReturned ==
    \A k \in QuickResolved :
        /\ IdSeq(calls[k].output) = IdSeq(calls[k].input)
        /\ \A n \in 1..Len(calls[k].output) :
              LET o == calls[k].output[n]
              IN (Scored(o) /\ scorer.quick[o.id] \in 0..ScoreOne) =>
                     o.quickAiScore = scorer.quick[o.id]

\* C39, as the code behaves: the order is kept and a returned score other than 0 is
\* stored as it is; a returned 0 is taken for a missing score and replaced by the
\* item's combinedScore.
C39_QuickScoreAsCoded ==
    \A k \in QuickResolved :
        /\ IdSeq(calls[k].output) = IdSeq(calls[k].input)
        /\ \A n \in 1..Len(calls[k].output) :
              LET o == calls[k].output[n]
              IN Scored(o) =>
                     /\ scorer.quick[o.id] # 0 => o.quickAiScore = scorer.quick[o.id]
                     /\ scorer.quick[o.id] = 0 =>
                           /\ o.quickAiScore = calls[k].input[n].combinedScore
                           /\ o.quickAiScore > 0

\* Quick Analysis resolved with two scored items, the first having been given the
\* score 0 and the second another score
C39_Witness ==
    \E k \in QuickResolved :
        /\ Len(calls[k].output) >= 2
        /\ Scored(calls[k].output[1])
        /\ Scored(calls[k].output[2])
        /\ scorer.quick[calls[k].output[1].id] = 0
        /\ scorer.quick[calls[k].output[2].id] = 1200
        /\ calls[k].output[1].quickAiScore # 0

====
